---- MODULE Spec2Model ----
(***************************************************************************)
(* Position monitor and dynamic stop-loss engine of tg_signals.            *)
(*                                                                         *)
(* The model follows BinanceUSDTFuturesTraderManager                       *)
(* (src/traders/binance_futures_trader.py; the older copy in               *)
(* src/binance_futures_trader.py has the same tick handler and the same    *)
(* refresh).  Prices are integers in price units; a stop-loss price is     *)
(* kept in hundredths of a price unit, which is exact for                  *)
(* entry * 0.95 and entry * (100 + 5k) / 100 on integer entries.           *)
(* A Decimal percentage is kept as the exact fraction <<num, den>>.        *)
(*                                                                         *)
(* Spec runs the handlers of one manager against one instrument; each      *)
(* handler is one step (the websocket client delivers its messages one at  *)
(* a time).  SpecPolicy evaluates the stop-loss policy alone.              *)
(***************************************************************************)
EXTENDS Integers, Sequences, FiniteSets, TLC

(***************************************************************************)
(* Bounds of the model.                                                    *)
(***************************************************************************)
\* messages the notification queue may hold before producers are held back
MaxQueue == 2
\* largest numerator of a percentage n / PctDen drawn in SpecPolicy
MaxPctNum == 21000
\* SpecRound draws the prices 0, RoundStep, ..., MaxRoundK * RoundStep
\* (hundredths of a price unit)
RoundStep == 25
MaxRoundK == 480

(***************************************************************************)
(* Program constants.                                                      *)
(***************************************************************************)
\* Decimal('0.95'): the seeded stop, in percent of the entry price
DefaultStopPercent == 95
\* Decimal('10'): the guard of the tick handler, in percent
MinRisePercent == 10
\* Decimal('10'): width of one tier in calculate_new_stop_loss
TierWidthPercent == 10
\* Decimal('5'): stop raised per tier
TierStopPercent == 5
\* Decimal('100')
HundredPercent == 100
\* MAX_RECONNECT_ATTEMPTS = 10
MAX_RECONNECT_ATTEMPTS == 10
\* min(2 ** self.ws_reconnect_count, 300): the base and the cap in seconds
BackoffBase == 2
BackoffCap == 300

(***************************************************************************)
(* The environment: instruments, what the exchange can report, what the    *)
(* mark-price stream can deliver.                                          *)
(***************************************************************************)
Symbols == {"BTCUSDT"}
EntryPrices == {100, 110}
Amounts == {1, -1}
TickPrices == {108, 109, 111, 121}
\* the 'p' field of a mark-price message: a decimal text or something else
TickPayloads == [valid : {TRUE}, value : TickPrices] \cup {[valid |-> FALSE, value |-> 0]}
\* the PRICE_FILTER of symbols_info, in hundredths of a price unit
PriceFilter == [minPrice |-> 100, maxPrice |-> 11500, tickSize |-> 50]
\* what the exchange does with one stop-order replacement
ExchangeOutcomes == {"ok", "cancel_raises", "order_rejected"}
\* denominators of the percentages drawn in SpecPolicy (thousandths)
PctDen == 1000

None == << >>
Some(v) == << v >>
NoPosition == [amount |-> 0, entry |-> 0]
EmptyRegistry == [s \in {} |-> 0]

VARIABLES
    exchange_positions,  \* the account on the exchange: symbol -> [amount, entry]
    exchange_stop,       \* the open stop order of each symbol on the exchange, None or Some(price)
    exchange_take_profit, \* whether the symbol has an open TAKE_PROFIT_MARKET order on the exchange
    active_positions,    \* self.active_positions: symbol -> position dict
    monitored_symbols,   \* self.monitored_symbols
    ws_streams,          \* mark-price streams subscribed on the current ws_client
    message_queue,       \* self.message_queue
    reopened,            \* symbols whose exchange position changed since the registry last fetched it
    scenario,            \* per symbol: ticks of Scenario handled since it was seeded
    last,                \* the handler that ran last and what it did
    policy,              \* SpecPolicy: the percentage and entry drawn and the candidate computed
    manager,             \* the class of the manager running
    transport_calls,     \* the transport calls issued in the step just taken
    is_ws_connected,     \* self.is_ws_connected
    ws_reconnect_count,  \* self.ws_reconnect_count
    ws_client_running,   \* whether self.ws_client holds an open connection and delivers messages
    heartbeat_stale,     \* time.time() - self.last_heartbeat > HEARTBEAT_TIMEOUT
    disconnect_time,     \* the local of _monitor_ws_connection: None or Some("current_time")
    backoff,             \* the wait of the last reconnect attempt: None or Some([attempt, delay])
    listen_key_thread_alive, \* whether the thread of _keep_listen_key_alive still runs
    ws_lock,             \* self.ws_lock: "free" or the thread that holds it
    start_pc,            \* per thread: where it is in _start_ws_monitor
    orphan_clients,      \* websocket clients still running that self.ws_client no longer refers to
    tick,                \* per callback context: the handle_price_update call it is in
    rest_calls           \* the REST and Telegram calls made in the step just taken

vars == << exchange_positions, exchange_stop, exchange_take_profit, active_positions, monitored_symbols,
           ws_streams, message_queue, reopened, scenario, last, policy,
           manager, transport_calls,
           is_ws_connected, ws_reconnect_count, ws_client_running, heartbeat_stale,
           disconnect_time, backoff, listen_key_thread_alive, ws_lock, start_pc,
           orphan_clients, tick, rest_calls >>

\* the lock of _start_ws_monitor and the threads that take it
lock_vars == << ws_lock, start_pc, orphan_clients >>

\* the state of the connection supervisor
conn_vars == << is_ws_connected, ws_reconnect_count, ws_client_running, heartbeat_stale,
               disconnect_time, backoff,
                    listen_key_thread_alive, lock_vars >>

\* what the steps of SpecPolicy leave alone
subs_vars == << manager, transport_calls >>
io_vars == << tick, rest_calls >>

\* the manager, which the specifications of pure functions leave alone
manager_vars == << exchange_positions, exchange_stop, exchange_take_profit, active_positions,
                  monitored_symbols, ws_streams, message_queue, reopened, scenario, last,
                  subs_vars, conn_vars, io_vars >>

(***************************************************************************)
(* Decimal helpers.                                                        *)
(***************************************************************************)
\* Decimal // Decimal truncates toward zero
TruncDiv(a, b) == IF a >= 0 THEN a \div b ELSE -((-a) \div b)

\* Decimal(str(value).strip()), None when the text is no decimal
safe_decimal_convert(p) == IF p.valid THEN Some(p.value) ELSE None

\* ((current_price - entry_price) / entry_price) * Decimal('100')
price_change_percent(current_price, entry_price) ==
    << (current_price - entry_price) * HundredPercent, entry_price >>

(***************************************************************************)
(* The stop-loss policy.                                                   *)
(***************************************************************************)
\* a calculate_new_stop_loss that rounds the tier up
calculate_new_stop_loss_ceil(pcp, entry_price) ==
    LET rise_times == TruncDiv(pcp[1], TierWidthPercent * pcp[2]) + 1
        stop_loss_percent == HundredPercent + rise_times * TierStopPercent
    IN  entry_price * stop_loss_percent

\* the new stop in hundredths: entry_price * (stop_loss_percent / 100)
calculate_new_stop_loss(pcp, entry_price) ==
    LET rise_times == TruncDiv(pcp[1], TierWidthPercent * pcp[2])
        stop_loss_percent == HundredPercent + rise_times * TierStopPercent
    IN  entry_price * stop_loss_percent

\* a guard that excludes the boundary
candidate_stop_strict(pcp, entry_price) ==
    IF pcp[1] > MinRisePercent * pcp[2]
    THEN Some(calculate_new_stop_loss(pcp, entry_price))
    ELSE None

\* if price_change_percent >= Decimal('10'): new_stop_loss = calculate_new_stop_loss(...)
candidate_stop(pcp, entry_price) ==
    IF pcp[1] >= MinRisePercent * pcp[2]
    THEN Some(calculate_new_stop_loss(pcp, entry_price))
    ELSE None

\* a comparison that lets a tie through
stop_improves_or_ties(new_stop_loss, current_stop_loss) == new_stop_loss >= current_stop_loss

\* a handler that writes every candidate
stop_improves_always(new_stop_loss, current_stop_loss) == TRUE

\* if new_stop_loss > current_stop_loss:
stop_improves(new_stop_loss, current_stop_loss) == new_stop_loss > current_stop_loss

(***************************************************************************)
(* The exchange adapter.                                                   *)
(***************************************************************************)
\* round(price / tick_size) * tick_size, Python's round: half to even
RoundHalfEven(n, d) ==
    LET q == n \div d
        r == n % d
    IN  IF 2 * r > d \/ (2 * r = d /\ q % 2 = 1) THEN q + 1 ELSE q

RECURSIVE Pow(_, _)
Pow(b, n) == IF n = 0 THEN 1 ELSE b * Pow(b, n - 1)

Min(a, b) == IF a < b THEN a ELSE b
Max(a, b) == IF a > b THEN a ELSE b

\* None when the price is outside [minPrice, maxPrice] (the function raises)
round_price(price, symbol) ==
    IF price < PriceFilter.minPrice \/ price > PriceFilter.maxPrice
    THEN None
    ELSE Some(Max(PriceFilter.minPrice,
                  Min(RoundHalfEven(price, PriceFilter.tickSize) * PriceFilter.tickSize,
                      PriceFilter.maxPrice)))

\* self.rest_client.cancel_open_orders(symbol=symbol) in update_stop_loss_order:
\* the exchange cancels every open order of the symbol, of whatever type
cancel_open_orders(take_profit, symbol, outcome) ==
    IF outcome = "cancel_raises" THEN take_profit
    ELSE [take_profit EXCEPT ![symbol] = FALSE]

\* the stop orders on the exchange after update_stop_loss_order(symbol, stop_price):
\* cancel_open_orders, then round_price, then new_order; every exception is logged
\* and swallowed
update_stop_loss_order(orders, symbol, stop_price, outcome) ==
    IF outcome = "cancel_raises"
    THEN orders
    ELSE IF round_price(stop_price, symbol) = None \/ outcome = "order_rejected"
         THEN [orders EXCEPT ![symbol] = None]
         ELSE [orders EXCEPT ![symbol] = round_price(stop_price, symbol)]

\* what a stop-order replacement did on the exchange
replacement_result(symbol, stop_price, outcome) ==
    IF outcome = "cancel_raises" THEN "cancel_raises"
    ELSE IF round_price(stop_price, symbol) = None \/ outcome = "order_rejected"
         THEN "order_rejected"
         ELSE "ok"

\* one entry of the dict built by get_active_positions
seed_position(p) ==
    [amount |-> p.amount,
     entry_price |-> p.entry,
     current_stop_loss |-> p.entry * DefaultStopPercent]

\* a refresh that keeps the entries it already has
get_active_positions_merge(fetch_ok) ==
    IF fetch_ok
    THEN [s \in {t \in DOMAIN exchange_positions : exchange_positions[t].amount # 0} |->
            IF s \in DOMAIN active_positions
            THEN active_positions[s]
            ELSE seed_position(exchange_positions[s])]
    ELSE EmptyRegistry

\* get_position_risk, one seeded entry per position with a non-zero amount;
\* {} when the call raises
get_active_positions(fetch_ok) ==
    IF fetch_ok
    THEN [s \in {t \in DOMAIN exchange_positions : exchange_positions[t].amount # 0} |->
            seed_position(exchange_positions[s])]
    ELSE EmptyRegistry

(***************************************************************************)
(* The subscription reconciler.                                            *)
(***************************************************************************)
\* the orders in which Python may iterate a set of the instruments
IterationOrders ==
    {r \in [1 .. Cardinality(DOMAIN exchange_positions) -> DOMAIN exchange_positions] :
        \A i, j \in DOMAIN r : r[i] = r[j] => i = j}

\* how the transport takes the calls of one reconciliation: the order in
\* which the sets are iterated and the call that raises (none when fail_at
\* exceeds the calls issued or is 0)
TransportRuns ==
    [rank : IterationOrders, fail_at : 0 .. Cardinality(DOMAIN exchange_positions)]

in_order(symbols, rank) == SelectSeq(rank, LAMBDA s : s \in symbols)

\* for symbol in remove_symbols: self.ws_client.unsubscribe(stream=[...])
unsubscribe_calls(remove_symbols, rank) ==
    LET order == in_order(remove_symbols, rank)
    IN  [i \in 1 .. Len(order) |-> [op |-> "unsubscribe", symbols |-> {order[i]}]]

\* if new_symbols: self.ws_client.subscribe(stream=streams), one call
subscribe_call(new_symbols) ==
    IF new_symbols # {} THEN << [op |-> "subscribe", symbols |-> new_symbols] >> ELSE << >>

\* a reconciler that subscribes first
planned_calls_subscribe_first(remove_symbols, new_symbols, rank) ==
    subscribe_call(new_symbols) \o unsubscribe_calls(remove_symbols, rank)

\* the transport calls of update_price_subscriptions and of
\* update_websocket_subscriptions, in the order the code issues them
planned_calls(remove_symbols, new_symbols, rank) ==
    unsubscribe_calls(remove_symbols, rank) \o subscribe_call(new_symbols)

\* Bybit: for symbol in new_symbols: self.ws_client.ticker_stream(symbol=symbol, ...)
bybit_planned_calls(remove_symbols, new_symbols, rank) ==
    LET order == in_order(new_symbols, rank)
    IN  unsubscribe_calls(remove_symbols, rank)
        \o [i \in 1 .. Len(order) |-> [op |-> "subscribe", symbols |-> {order[i]}]]

\* the streams of the client after the first k of the calls returned
RECURSIVE streams_after(_, _, _)
streams_after(streams, calls, k) ==
    IF k = 0 THEN streams
    ELSE IF calls[k].op = "unsubscribe"
         THEN streams_after(streams, calls, k - 1) \ calls[k].symbols
         ELSE streams_after(streams, calls, k - 1) \cup calls[k].symbols

\* the calls issued, each with the streams the client held when it was
\* issued and whether it raised
issued_calls(streams, calls, fail_at) ==
    [i \in 1 .. (IF fail_at \in 1 .. Len(calls) THEN fail_at ELSE Len(calls)) |->
        [op |-> calls[i].op, symbols |-> calls[i].symbols,
         before |-> streams_after(streams, calls, i - 1),
         raised |-> (i = fail_at)]]

\* a reconciler that never assigns monitored_symbols
run_reconcile_keeps_monitored(streams, calls, current_positions, fail_at) ==
    LET raised == fail_at \in 1 .. Len(calls)
    IN  [streams |-> streams_after(streams, calls, IF raised THEN fail_at - 1 ELSE Len(calls)),
         monitored |-> monitored_symbols,
         calls |-> issued_calls(streams, calls, fail_at)]

\* the try block of the reconciler: the calls in order, then
\* self.monitored_symbols = current_positions; a call that raises has no
\* effect on the transport and ends the block with monitored_symbols as it was
run_reconcile(streams, calls, current_positions, fail_at) ==
    LET raised == fail_at \in 1 .. Len(calls)
    IN  [streams |-> streams_after(streams, calls, IF raised THEN fail_at - 1 ELSE Len(calls)),
         monitored |-> IF raised THEN monitored_symbols ELSE current_positions,
         calls |-> issued_calls(streams, calls, fail_at)]

\* update_price_subscriptions (update_websocket_subscriptions of
\* FuturesTradeManager) on a client holding `streams`
update_price_subscriptions(streams, registry, transport) ==
    LET current_positions == DOMAIN registry
        remove_symbols == monitored_symbols \ current_positions
        new_symbols == current_positions \ monitored_symbols
    IN  run_reconcile(streams, planned_calls(remove_symbols, new_symbols, transport.rank),
                      current_positions, transport.fail_at)

\* update_price_subscriptions of BybitUSDTFuturesTraderManager
bybit_update_price_subscriptions(streams, registry, transport) ==
    LET current_positions == DOMAIN registry
        remove_symbols == monitored_symbols \ current_positions
        new_symbols == current_positions \ monitored_symbols
    IN  run_reconcile(streams, bybit_planned_calls(remove_symbols, new_symbols, transport.rank),
                      current_positions, transport.fail_at)

\* get_active_positions of BybitUSDTFuturesTraderManager: the stop is the one
\* the exchange reports (0 when the position has none)
bybit_get_active_positions(fetch_ok) ==
    IF fetch_ok
    THEN [s \in {t \in DOMAIN exchange_positions : exchange_positions[t].amount # 0} |->
            [amount |-> exchange_positions[s].amount,
             entry_price |-> exchange_positions[s].entry,
             current_stop_loss |-> IF exchange_stop[s] = None THEN 0 ELSE exchange_stop[s][1]]]
    ELSE EmptyRegistry

(***************************************************************************)
(* Observers.  They record what happened; no handler reads them.           *)
(***************************************************************************)
\* the tick scenario of the stop-loss policy: entry price, ticks in order,
\* and the stop (in price units) after 0, 1, 2, 3, 4 of the ticks
Scenario == [entry |-> 100,
             ticks |-> << 109, 111, 108, 121 >>,
             stops |-> << 95, 95, 105, 105, 110 >>]

\* the scenario restarts on every entry the registry seeds
scenario_after_refresh(registry) ==
    [s \in Symbols |->
        IF s \in DOMAIN registry /\ registry[s].amount > 0
           /\ registry[s].entry_price = Scenario.entry
        THEN Some(0) ELSE None]

\* one more tick of the scenario handled for `symbol`, or the scenario left
scenario_after_tick(symbol, payload, result) ==
    [scenario EXCEPT ![symbol] =
        IF /\ scenario[symbol] # None
           /\ payload.valid
           /\ result \in {"none", "ok"}
           /\ scenario[symbol][1] < Len(Scenario.ticks)
           /\ payload.value = Scenario.ticks[scenario[symbol][1] + 1]
        THEN Some(scenario[symbol][1] + 1)
        ELSE None]

\* what the handler that ran last did
Record(op, result) == [op |-> op, result |-> result]

\* one network call and where it ran: "callback" for handle_ws_message and
\* the handlers it calls, "thread" for the threads of the manager,
\* "consumer" for process_message_queue
RestCall(context, call) == [context |-> context, call |-> call]

\* the calls of update_stop_loss_order: the lookup of the position comes
\* first, round_price is evaluated in the arguments of new_order
replacement_rest_calls(registry, symbol, stop_price, outcome) ==
    IF symbol \notin DOMAIN registry THEN << >>
    ELSE IF outcome = "cancel_raises" \/ round_price(stop_price, symbol) = None
         THEN << RestCall("callback", "cancel_open_orders") >>
         ELSE << RestCall("callback", "cancel_open_orders"), RestCall("callback", "new_order") >>

\* the callback contexts in which the transport may run handle_ws_message
Contexts == {"callback_1", "callback_2"}

\* the threads that call _start_ws_monitor once the manager is constructed:
\* _monitor_ws_connection and _keep_listen_key_alive, through
\* _reconnect_websocket
StartThreads == {"monitor", "listen_key"}

\* a context that is in no handle_price_update call
IdleTick == [pc |-> "idle", symbol |-> "", current_stop_loss |-> 0, new_stop_loss |-> 0,
             replaced |-> FALSE]

\* a refresh assigns a new dict to self.active_positions: the position dict
\* a running handle_price_update holds is no longer the one of the registry
after_refresh(t) ==
    [c \in Contexts |-> IF t[c].pc = "idle" THEN t[c] ELSE [t[c] EXCEPT !.replaced = TRUE]]

\* whether a refresh seeds again a symbol for which the registry holds a
\* raised stop of an earlier position
reseeds(registry) ==
    \E s \in DOMAIN active_positions \cap DOMAIN registry :
        /\ s \in reopened
        /\ active_positions[s].current_stop_loss
              > active_positions[s].entry_price * DefaultStopPercent

refresh_result(fetch_ok, registry) ==
    IF ~fetch_ok THEN "fetch_failed"
    ELSE IF reseeds(registry) THEN "reseeded" ELSE "refreshed"

(***************************************************************************)
(* Initial state: the manager constructed on an account with no position.  *)
(***************************************************************************)
PolicyIdle == [pcp |-> << 0, PctDen >>, entry_price |-> 0, candidate |-> None, pc |-> "idle"]

\* the connection as the constructor's _start_ws_monitor leaves it
InitConnected ==
    /\ is_ws_connected = TRUE
    /\ ws_reconnect_count = 0
    /\ ws_client_running = TRUE
    /\ heartbeat_stale = FALSE
    /\ disconnect_time = None
    /\ backoff = None
    /\ listen_key_thread_alive = TRUE
    /\ ws_lock = "free"
    /\ start_pc = [t \in StartThreads |-> "idle"]
    /\ orphan_clients = 0
    /\ tick = [c \in Contexts |-> IdleTick]
    /\ rest_calls = << >>

InitManager ==
    /\ exchange_positions = [s \in Symbols |-> NoPosition]
    /\ exchange_stop = [s \in Symbols |-> None]
    /\ exchange_take_profit = [s \in Symbols |-> FALSE]
    /\ active_positions = EmptyRegistry
    /\ monitored_symbols = {}
    /\ ws_streams = {}
    /\ message_queue = << >>
    /\ reopened = {}
    /\ scenario = [s \in Symbols |-> None]
    /\ last = Record("__init__", "none")
    /\ manager = "binance"
    /\ transport_calls = << >>
    /\ InitConnected

Init ==
    /\ InitManager
    /\ policy = PolicyIdle

(***************************************************************************)
(* The exchange account changes.                                           *)
(***************************************************************************)
PositionOpened(s, a, e) ==
    /\ exchange_positions[s].amount = 0
    /\ exchange_positions' = [exchange_positions EXCEPT ![s] = [amount |-> a, entry |-> e]]
    /\ reopened' = reopened \cup ({s} \cap DOMAIN active_positions)
    /\ last' = Record("exchange", "position_opened")
    /\ UNCHANGED << exchange_stop, exchange_take_profit, active_positions, monitored_symbols, ws_streams,
                    message_queue, scenario, policy, manager, conn_vars >>
    /\ transport_calls' = << >>
    /\ rest_calls' = << >>
    /\ UNCHANGED tick

PositionClosed(s) ==
    /\ exchange_positions[s].amount # 0
    /\ exchange_positions' = [exchange_positions EXCEPT ![s] = NoPosition]
    /\ reopened' = reopened \cup ({s} \cap DOMAIN active_positions)
    /\ last' = Record("exchange", "position_closed")
    /\ UNCHANGED << exchange_stop, exchange_take_profit, active_positions, monitored_symbols, ws_streams,
                    message_queue, scenario, policy, manager, conn_vars >>
    /\ transport_calls' = << >>
    /\ rest_calls' = << >>
    /\ UNCHANGED tick

(***************************************************************************)
(* The handlers.                                                           *)
(***************************************************************************)
\* what the queue of the model keeps of a message: its kind and its symbol
queued(message) == [kind |-> message.kind, symbol |-> message.symbol]

\* a notification that reports the stop the handler read
update_message_old_stop(symbol, new_stop_loss, current_stop_loss) ==
    [kind |-> "stop_loss_updated", symbol |-> symbol, stop |-> current_stop_loss]

\* update_message: the symbol and f"{new_stop_loss}" (the price and the
\* percentage it also shows are left out)
update_message(symbol, new_stop_loss, current_stop_loss) ==
    [kind |-> "stop_loss_updated", symbol |-> symbol, stop |-> new_stop_loss]

\* handle_price_update(data): data['s'] = symbol, data['p'] = payload
handle_price_update(symbol, payload, outcome) ==
    /\ manager = "binance"
    /\ Len(message_queue) < MaxQueue
    /\ LET current_price == safe_decimal_convert(payload)
       IN  IF current_price = None \/ symbol \notin DOMAIN active_positions
           THEN /\ last' = Record("handle_price_update", "ignored")
                /\ scenario' = scenario_after_tick(symbol, payload, "none")
                /\ rest_calls' = << >>
                /\ UNCHANGED << exchange_stop, exchange_take_profit, active_positions, message_queue >>
           ELSE LET position == active_positions[symbol]
                    entry_price == position.entry_price
                    current_stop_loss == position.current_stop_loss
                    pcp == price_change_percent(current_price[1], entry_price)
                    new_stop_loss == candidate_stop(pcp, entry_price)
                IN  IF new_stop_loss # None /\ stop_improves(new_stop_loss[1], current_stop_loss)
                    THEN LET result == replacement_result(symbol, new_stop_loss[1], outcome)
                         IN  /\ exchange_stop' = update_stop_loss_order(
                                    exchange_stop, symbol, new_stop_loss[1], outcome)
                             /\ exchange_take_profit' = cancel_open_orders(
                                    exchange_take_profit, symbol, outcome)
                             /\ active_positions' =
                                    [active_positions EXCEPT
                                        ![symbol].current_stop_loss = new_stop_loss[1]]
                             /\ message_queue' = Append(message_queue,
                                    queued(update_message(symbol, new_stop_loss[1],
                                                          current_stop_loss)))
                             /\ last' = [op |-> "handle_price_update", result |-> result,
                                         put |-> update_message(symbol, new_stop_loss[1],
                                                                current_stop_loss)]
                             /\ scenario' = scenario_after_tick(symbol, payload, result)
                             /\ rest_calls' = replacement_rest_calls(
                                    active_positions, symbol, new_stop_loss[1], outcome)
                    ELSE /\ last' = Record("handle_price_update",
                                        IF new_stop_loss = None THEN "below_guard"
                                        ELSE IF new_stop_loss[1] = current_stop_loss THEN "tie"
                                        ELSE "not_better")
                         /\ scenario' = scenario_after_tick(symbol, payload, "none")
                         /\ rest_calls' = << >>
                         /\ UNCHANGED << exchange_stop, exchange_take_profit, active_positions, message_queue >>
    /\ transport_calls' = << >>
    /\ UNCHANGED << exchange_positions, monitored_symbols, ws_streams, reopened, policy,
                    manager, conn_vars >>
    /\ UNCHANGED tick

\* handle_account_update(message): one notification, then the registry is
\* replaced by get_active_positions(); the subscriptions are not reconciled
handle_account_update(fetch_ok) ==
    /\ manager = "binance"
    /\ Len(message_queue) < MaxQueue
    /\ message_queue' = Append(message_queue, [kind |-> "account_update", symbol |-> ""])
    /\ active_positions' = get_active_positions(fetch_ok)
    /\ reopened' = {}
    /\ scenario' = scenario_after_refresh(active_positions')
    /\ last' = Record("handle_account_update", refresh_result(fetch_ok, active_positions'))
    /\ transport_calls' = << >>
    /\ UNCHANGED << exchange_positions, exchange_stop, exchange_take_profit, monitored_symbols, ws_streams, policy,
                    manager, conn_vars >>
    /\ rest_calls' = << RestCall("callback", "get_position_risk") >>
    /\ tick' = after_refresh(tick)

\* how one run of _start_ws_monitor ends: it succeeds, ws_client.stop() raises,
\* no listen key is obtained, or the new client or its user_data raises
StartOutcomes == {"ok", "stop_raises", "no_listen_key", "client_raises"}

\* the body of _start_ws_monitor() entered with ws_reconnect_count = count:
\* stop the old client, get a listen key, create a new client, mark the
\* connection, refresh the registry and reconcile the subscriptions; on an
\* exception is_ws_connected = False and the exception is raised again
StartWsMonitorBody(outcome, fetch_ok, transport, count) ==
    IF outcome = "ok"
    THEN LET registry == get_active_positions(fetch_ok)
             reconciled == update_price_subscriptions({}, registry, transport)
         IN  /\ is_ws_connected' = TRUE
             /\ ws_reconnect_count' = 0
             /\ heartbeat_stale' = FALSE
             /\ ws_client_running' = TRUE
             /\ active_positions' = registry
             /\ ws_streams' = reconciled.streams
             /\ monitored_symbols' = reconciled.monitored
             /\ transport_calls' = reconciled.calls
             /\ reopened' = {}
             /\ scenario' = scenario_after_refresh(registry)
             /\ tick' = after_refresh(tick)
    ELSE /\ is_ws_connected' = FALSE
         /\ ws_reconnect_count' = count
         /\ ws_client_running' = (outcome = "stop_raises" /\ ws_client_running)
         /\ ws_streams' = IF outcome = "stop_raises" THEN ws_streams ELSE {}
         /\ transport_calls' = << >>
         /\ UNCHANGED << heartbeat_stale, active_positions, monitored_symbols, reopened,
                         scenario, tick >>

\* the REST calls of _start_ws_monitor: new_listen_key, then on success
\* get_position_risk
start_rest_calls(outcome) ==
    IF outcome = "stop_raises" THEN << >>
    ELSE IF outcome = "ok"
         THEN << RestCall("thread", "new_listen_key"), RestCall("thread", "get_position_risk") >>
         ELSE << RestCall("thread", "new_listen_key") >>

\* what a run of _start_ws_monitor did
start_result(outcome, fetch_ok) ==
    IF outcome = "ok" THEN refresh_result(fetch_ok, get_active_positions(fetch_ok)) ELSE outcome

\* _start_ws_monitor() through _reconnect_websocket(), which swallows the
\* exception
start_ws_monitor(outcome, fetch_ok, transport) ==
    /\ manager = "binance"
    /\ StartWsMonitorBody(outcome, fetch_ok, transport, ws_reconnect_count)
    /\ last' = Record("_start_ws_monitor", start_result(outcome, fetch_ok))
    /\ UNCHANGED << exchange_positions, exchange_stop, exchange_take_profit, message_queue, policy, manager,
                    disconnect_time, backoff,
                    listen_key_thread_alive, lock_vars >>
    /\ rest_calls' = start_rest_calls(outcome)

\* a queue that hands out the newest message
get_nowait_newest(q) == [message |-> q[Len(q)], rest |-> SubSeq(q, 1, Len(q) - 1)]

\* self.message_queue.get_nowait() of a queue.Queue: the oldest message and
\* what stays in the queue
get_nowait(q) == [message |-> Head(q), rest |-> Tail(q)]

\* await self.send_telegram_message(message) in the consumer
SendCall(message) == [context |-> "consumer", call |-> "send_message", message |-> message]

\* a consumer that puts a message it could not send back at the head
after_send_retry(q, delivered) == IF delivered THEN get_nowait(q).rest ELSE q

\* the queue after one round of the inner loop: the message was taken before
\* send_telegram_message, which logs a failure and returns, so the message
\* is gone whether or not it was delivered
after_send(q, delivered) == get_nowait(q).rest

\* process_message_queue: the consumer takes the oldest message and sends it
process_message_queue ==
    /\ message_queue # << >>
    /\ \E delivered \in BOOLEAN :
          /\ message_queue' = after_send(message_queue, delivered)
          /\ last' = Record("process_message_queue",
                            IF delivered THEN "sent" ELSE "send_failed")
    /\ UNCHANGED << exchange_positions, exchange_stop, exchange_take_profit, active_positions, monitored_symbols,
                    ws_streams, reopened, scenario, policy, manager, conn_vars >>
    /\ transport_calls' = << >>
    /\ rest_calls' = << SendCall(get_nowait(message_queue).message) >>
    /\ UNCHANGED tick

Next ==
    \/ \E s \in Symbols, a \in Amounts, e \in EntryPrices : PositionOpened(s, a, e)
    \/ \E s \in Symbols : PositionClosed(s)
    \/ \E s \in Symbols, p \in TickPayloads, o \in ExchangeOutcomes : handle_price_update(s, p, o)
    \/ \E f \in BOOLEAN : handle_account_update(f)
    \/ \E o \in StartOutcomes, f \in BOOLEAN, t \in TransportRuns : start_ws_monitor(o, f, t)
    \/ process_message_queue

Spec == Init /\ [][Next]_vars

(***************************************************************************)
(* SpecOrders: positions are opened by limit_open_long_with_tp_sl with a   *)
(* take-profit order, and the manager replaces their stop orders.          *)
(***************************************************************************)
\* limit_open_long_with_tp_sl(symbol, usdt_amount, tp_percent): the limit
\* order to open and the TAKE_PROFIT_MARKET order are submitted (no
\* sl_percent); when a call raises before the take-profit is submitted nothing
\* of it is on the exchange
limit_open_long_with_tp_sl(symbol, submitted) ==
    /\ manager = "binance"
    /\ ~exchange_take_profit[symbol]
    /\ exchange_take_profit' = [exchange_take_profit EXCEPT ![symbol] = submitted]
    /\ last' = Record("limit_open_long_with_tp_sl", IF submitted THEN "submitted" ELSE "raised")
    /\ transport_calls' = << >>
    /\ rest_calls' = << RestCall("caller", "ticker_price"), RestCall("caller", "new_order") >>
                      \o (IF submitted THEN << RestCall("caller", "new_order") >> ELSE << >>)
    /\ UNCHANGED << exchange_positions, exchange_stop, active_positions, monitored_symbols,
                    ws_streams, message_queue, reopened, scenario, policy, manager, conn_vars,
                    tick >>

NextOrders ==
    \/ \E s \in Symbols, b \in BOOLEAN : limit_open_long_with_tp_sl(s, b)
    \/ \E s \in Symbols, a \in Amounts, e \in EntryPrices : PositionOpened(s, a, e)
    \/ \E s \in Symbols, p \in TickPayloads, o \in ExchangeOutcomes : handle_price_update(s, p, o)
    \/ \E f \in BOOLEAN : handle_account_update(f)
    \/ process_message_queue

SpecOrders == Init /\ [][NextOrders]_vars

(***************************************************************************)
(* SpecPolicy: the stop-loss policy on drawn inputs.  A percentage is      *)
(* n / PctDen; the manager itself stays as constructed.                    *)
(***************************************************************************)
PolicyInputs ==
    [pcp : {<< n, PctDen >> : n \in (0 - MaxPctNum \div 2) .. MaxPctNum},
     entry_price : EntryPrices,
     candidate : {None},
     pc : {"drawn"}]

InitPolicy ==
    /\ InitManager
    /\ policy \in PolicyInputs

\* the guard of handle_price_update and calculate_new_stop_loss, applied
policy_evaluate ==
    /\ policy.pc = "drawn"
    /\ policy' = [policy EXCEPT !.candidate = candidate_stop(policy.pcp, policy.entry_price),
                                !.pc = "evaluated"]
    /\ UNCHANGED << exchange_positions, exchange_stop, exchange_take_profit, active_positions, monitored_symbols,
                    ws_streams, message_queue, reopened, scenario, last, subs_vars, conn_vars, io_vars >>

\* the next percentage, one step of 1 / PctDen up, on any entry price
policy_draw ==
    /\ policy.pc = "evaluated"
    /\ policy.pcp[1] < MaxPctNum
    /\ \E e \in EntryPrices :
          policy' = [pcp |-> << policy.pcp[1] + 1, PctDen >>, entry_price |-> e,
                     candidate |-> None, pc |-> "drawn"]
    /\ UNCHANGED << exchange_positions, exchange_stop, exchange_take_profit, active_positions, monitored_symbols,
                    ws_streams, message_queue, reopened, scenario, last, subs_vars, conn_vars, io_vars >>

NextPolicy ==
    \/ policy_evaluate
    \/ policy_draw

SpecPolicy == InitPolicy /\ [][NextPolicy]_vars

(***************************************************************************)
(* SpecRound: round_price of the three manager classes on drawn prices.    *)
(***************************************************************************)
\* symbols_info[symbol]['pricePrecision'] of src/binance_futures_trader.py:
\* decimal places of a price
pricePrecision == 1

\* round_price of src/binance_futures_trader.py: round(price, precision),
\* with no look at the price band; prices are in hundredths
precision_round_price(price, symbol) ==
    LET unit == Pow(10, 2 - pricePrecision)
    IN  Some(RoundHalfEven(price, unit) * unit)

\* round_price of BybitUSDTFuturesTraderManager: the range check, the
\* rounding to the tick and the clamp of the Binance manager
bybit_round_price(price, symbol) ==
    IF price < PriceFilter.minPrice \/ price > PriceFilter.maxPrice
    THEN None
    ELSE Some(Max(PriceFilter.minPrice,
                  Min(RoundHalfEven(price, PriceFilter.tickSize) * PriceFilter.tickSize,
                      PriceFilter.maxPrice)))

RoundCopies == {"traders/binance_futures_trader", "traders/bybit_futures_trader",
                "binance_futures_trader"}

round_price_of(copy, price, symbol) ==
    IF copy = "traders/binance_futures_trader" THEN round_price(price, symbol)
    ELSE IF copy = "traders/bybit_futures_trader" THEN bybit_round_price(price, symbol)
    ELSE precision_round_price(price, symbol)

InitRound ==
    /\ InitManager
    /\ policy \in [price : {0}, copy : RoundCopies, result : {None}, pc : {"drawn"}]

\* round_price(price, symbol) is called
round_evaluate ==
    /\ policy.pc = "drawn"
    /\ \E s \in Symbols :
          policy' = [policy EXCEPT !.result = round_price_of(policy.copy, policy.price, s),
                                   !.pc = "rounded"]
    /\ UNCHANGED manager_vars

\* the next price, on any of the classes
round_draw ==
    /\ policy.pc = "rounded"
    /\ policy.price < MaxRoundK * RoundStep
    /\ \E c \in RoundCopies :
          policy' = [price |-> policy.price + RoundStep, copy |-> c, result |-> None,
                     pc |-> "drawn"]
    /\ UNCHANGED manager_vars

NextRound ==
    \/ round_evaluate
    \/ round_draw

SpecRound == InitRound /\ [][NextRound]_vars

(***************************************************************************)
(* SpecSubs: the registry and the subscriptions of one manager of any of   *)
(* the three classes, on two instruments.  No tick is delivered.           *)
(*   binance: handle_account_update on every ACCOUNT_UPDATE event and      *)
(*            _start_ws_monitor on every reconnection;                     *)
(*   bybit: handler_execution_update on every execution event;             *)
(*            update_price_subscriptions is public, _start_ws_monitor      *)
(*            calls it, and it is run here as a call at any time;          *)
(*   futures_trade_manager: the polling loop of start_monitoring.          *)
(***************************************************************************)
SubSymbols == {"BTCUSDT", "ETHUSDT"}
Managers == {"binance", "bybit", "futures_trade_manager"}
\* the positions of SpecSubs: long, at an entry price outside Scenario
SubAmount == 1
SubEntry == 110

InitSubs ==
    /\ exchange_positions = [s \in SubSymbols |-> NoPosition]
    /\ exchange_stop = [s \in SubSymbols |-> None]
    /\ exchange_take_profit = [s \in SubSymbols |-> FALSE]
    /\ active_positions = EmptyRegistry
    /\ monitored_symbols = {}
    /\ ws_streams = {}
    /\ message_queue = << >>
    /\ reopened = {}
    /\ scenario = [s \in Symbols |-> None]
    /\ last = Record("__init__", "none")
    /\ policy = PolicyIdle
    /\ manager \in Managers
    /\ transport_calls = << >>
    /\ InitConnected

\* Bybit handler_execution_update(message): one notification, then the
\* registry is replaced by get_active_positions()
handler_execution_update(fetch_ok) ==
    /\ manager = "bybit"
    /\ Len(message_queue) < MaxQueue
    /\ message_queue' = Append(message_queue, [kind |-> "execution", symbol |-> ""])
    /\ active_positions' = bybit_get_active_positions(fetch_ok)
    /\ reopened' = {}
    /\ last' = Record("handler_execution_update", IF fetch_ok THEN "refreshed" ELSE "fetch_failed")
    /\ transport_calls' = << >>
    /\ UNCHANGED << exchange_positions, exchange_stop, exchange_take_profit, monitored_symbols, ws_streams,
                    scenario, policy, manager, conn_vars >>
    /\ rest_calls' = << RestCall("callback", "get_positions") >>
    /\ tick' = after_refresh(tick)

\* Bybit update_price_subscriptions() on the client in use
BybitUpdatePriceSubscriptions(transport) ==
    /\ manager = "bybit"
    /\ LET reconciled == bybit_update_price_subscriptions(ws_streams, active_positions, transport)
       IN  /\ ws_streams' = reconciled.streams
           /\ monitored_symbols' = reconciled.monitored
           /\ transport_calls' = reconciled.calls
           /\ last' = Record("update_price_subscriptions",
                             IF \E i \in DOMAIN reconciled.calls : reconciled.calls[i].raised
                             THEN "raised" ELSE "ok")
    /\ UNCHANGED << exchange_positions, exchange_stop, exchange_take_profit, active_positions, message_queue,
                    reopened, scenario, policy, manager, conn_vars >>
    /\ rest_calls' = << >>
    /\ UNCHANGED tick

\* one round of the loop of FuturesTradeManager.start_monitoring: fetch the
\* positions and, when they differ from the registry, replace it and
\* reconcile the subscriptions
start_monitoring(fetch_ok, transport) ==
    /\ manager = "futures_trade_manager"
    /\ LET new_positions == get_active_positions(fetch_ok)
           reconciled == update_price_subscriptions(ws_streams, new_positions, transport)
       IN  IF new_positions # active_positions
           THEN /\ active_positions' = new_positions
                /\ ws_streams' = reconciled.streams
                /\ monitored_symbols' = reconciled.monitored
                /\ transport_calls' = reconciled.calls
                /\ reopened' = {}
                /\ tick' = after_refresh(tick)
                /\ last' = Record("start_monitoring",
                                  IF \E i \in DOMAIN reconciled.calls : reconciled.calls[i].raised
                                  THEN "raised" ELSE "ok")
           ELSE /\ last' = Record("start_monitoring", "unchanged")
                /\ transport_calls' = << >>
                /\ UNCHANGED << active_positions, ws_streams, monitored_symbols, reopened,
                                tick >>
    /\ UNCHANGED << exchange_positions, exchange_stop, exchange_take_profit, message_queue, scenario, policy, manager, conn_vars >>
    /\ rest_calls' = << RestCall("thread", "account") >>

NextSubs ==
    \/ \E s \in SubSymbols : PositionOpened(s, SubAmount, SubEntry)
    \/ \E s \in SubSymbols : PositionClosed(s)
    \/ \E f \in BOOLEAN : handle_account_update(f)
    \/ \E o \in StartOutcomes, f \in BOOLEAN, t \in TransportRuns : start_ws_monitor(o, f, t)
    \/ \E f \in BOOLEAN : handler_execution_update(f)
    \/ \E t \in TransportRuns : BybitUpdatePriceSubscriptions(t)
    \/ \E f \in BOOLEAN, t \in TransportRuns : start_monitoring(f, t)
    \/ process_message_queue

SpecSubs == InitSubs /\ [][NextSubs]_vars

\* the threads that keep running: the consumer of the notification queue
\* and the polling loop of start_monitoring; events of the exchange and
\* reconnections are not owed
SpecSubsFair ==
    /\ SpecSubs
    /\ WF_vars(process_message_queue)
    /\ WF_vars(\E f \in BOOLEAN, t \in TransportRuns : start_monitoring(f, t))

(***************************************************************************)
(* SpecConn: the connection supervisor of the Binance manager on an        *)
(* account that holds no position.  Three threads run: the callback of     *)
(* the websocket client (handle_ws_message), _monitor_ws_connection and    *)
(* _keep_listen_key_alive.  The constructor of the manager in              *)
(* src/traders has the start of the _monitor_ws_connection thread          *)
(* commented out; the one in src/binance_futures_trader.py starts it.      *)
(* One round of a loop is one step, its time.sleep included.               *)
(***************************************************************************)
\* a wait computed from the counter after its increment
backoff_delay_after_increment(count) == Min(Pow(BackoffBase, count + 1), BackoffCap)

\* delay = min(2 ** self.ws_reconnect_count, 300)
backoff_delay(count) == Min(Pow(BackoffBase, count), BackoffCap)

\* what renew_listen_key does: it returns, raises error_code -1125, raises
\* another error of the exchange (with an error_code), or raises an
\* exception that has no error_code (a network error)
RenewOutcomes == {"ok", "-1125", "other_error", "no_error_code"}

\* what a round of _keep_listen_key_alive that did not reconnect did
renewal_result(renewal) ==
    IF renewal = "ok" THEN "renewed"
    ELSE IF renewal = "-1125" THEN "no_new_key"
    ELSE IF renewal = "other_error" THEN "not_renewed"
    ELSE "thread_died"

\* 200 seconds pass without a message
heartbeat_timeout ==
    /\ ~heartbeat_stale
    /\ heartbeat_stale' = TRUE
    /\ last' = Record("clock", "heartbeat_timeout")
    /\ transport_calls' = << >>
    /\ UNCHANGED << exchange_positions, exchange_stop, exchange_take_profit, active_positions, monitored_symbols,
                    ws_streams, message_queue, reopened, scenario, policy, manager,
                    is_ws_connected, ws_reconnect_count, ws_client_running,
                    disconnect_time, backoff,
                    listen_key_thread_alive, lock_vars >>
    /\ rest_calls' = << >>
    /\ UNCHANGED tick

\* the connection of the client in use drops
connection_lost ==
    /\ ws_client_running
    /\ ws_client_running' = FALSE
    /\ last' = Record("network", "connection_lost")
    /\ transport_calls' = << >>
    /\ UNCHANGED << exchange_positions, exchange_stop, exchange_take_profit, active_positions, monitored_symbols,
                    ws_streams, message_queue, reopened, scenario, policy, manager,
                    is_ws_connected, ws_reconnect_count, heartbeat_stale,
                    disconnect_time, backoff,
                    listen_key_thread_alive, lock_vars >>
    /\ rest_calls' = << >>
    /\ UNCHANGED tick

\* handle_ws_message(_, message) on a message that carries no position
\* event: last_heartbeat = time.time(), is_ws_connected = True
handle_ws_message ==
    /\ manager = "binance"
    /\ ws_client_running
    /\ heartbeat_stale' = FALSE
    /\ is_ws_connected' = TRUE
    /\ last' = Record("handle_ws_message", IF is_ws_connected THEN "heartbeat" ELSE "connected")
    /\ transport_calls' = << >>
    /\ UNCHANGED << exchange_positions, exchange_stop, exchange_take_profit, active_positions, monitored_symbols,
                    ws_streams, message_queue, reopened, scenario, policy, manager,
                    ws_reconnect_count, ws_client_running, disconnect_time, backoff,
                    listen_key_thread_alive, lock_vars >>
    /\ rest_calls' = << >>
    /\ UNCHANGED tick

\* notify_disconnect() when disconnect_time is None
disconnect_notice ==
    IF disconnect_time = None THEN << [kind |-> "disconnect", symbol |-> ""] >> ELSE << >>

\* one round of the loop of _monitor_ws_connection, with
\* _handle_ws_disconnection and _reconnect_websocket
monitor_ws_connection(outcome, fetch_ok, transport) ==
    /\ manager = "binance"
    /\ Len(message_queue) + 2 <= MaxQueue
    /\ IF heartbeat_stale \/ ~is_ws_connected
       THEN IF ws_reconnect_count >= MAX_RECONNECT_ATTEMPTS
            THEN /\ message_queue' = message_queue \o disconnect_notice
                 /\ disconnect_time' = Some("current_time")
                 /\ last' = Record("_monitor_ws_connection", "gave_up")
                 /\ transport_calls' = << >>
                 /\ rest_calls' = << >>
                 /\ UNCHANGED << active_positions, monitored_symbols, ws_streams, reopened,
                                 scenario, is_ws_connected, ws_reconnect_count,
                                 ws_client_running, heartbeat_stale, backoff, tick >>
            ELSE /\ backoff' = Some([attempt |-> ws_reconnect_count + 1,
                                      delay |-> backoff_delay(ws_reconnect_count)])
                 /\ StartWsMonitorBody(outcome, fetch_ok, transport, ws_reconnect_count + 1)
                 /\ rest_calls' = start_rest_calls(outcome)
                 /\ message_queue' = message_queue \o disconnect_notice
                        \o (IF outcome = "ok"
                            THEN << [kind |-> "reconnect", symbol |-> ""] >> ELSE << >>)
                 /\ disconnect_time' = IF outcome = "ok" THEN None ELSE Some("current_time")
                 /\ last' = Record("_monitor_ws_connection",
                                   IF outcome = "ok" THEN "reconnected" ELSE outcome)
       ELSE /\ disconnect_time' = None
            /\ last' = Record("_monitor_ws_connection", "connected")
            /\ transport_calls' = << >>
            /\ rest_calls' = << >>
            /\ UNCHANGED << active_positions, monitored_symbols, ws_streams, reopened,
                            scenario, message_queue, is_ws_connected, ws_reconnect_count,
                            ws_client_running, heartbeat_stale, backoff, tick >>
    /\ UNCHANGED << exchange_positions, exchange_stop, exchange_take_profit, policy, manager,
                    listen_key_thread_alive, lock_vars >>

\* one round of the loop of _keep_listen_key_alive: renew the listen key;
\* on error -1125 get a new key and, when there is one, reconnect.  The
\* except clause reads e.error_code: an exception that has no such attribute
\* raises AttributeError there, which leaves the loop and ends the thread
keep_listen_key_alive(renewal, new_key_ok, outcome, fetch_ok, transport) ==
    /\ manager = "binance"
    /\ listen_key_thread_alive
    /\ listen_key_thread_alive' = (renewal # "no_error_code")
    /\ IF renewal = "-1125" /\ new_key_ok
       THEN /\ StartWsMonitorBody(outcome, fetch_ok, transport, ws_reconnect_count)
            /\ rest_calls' = << RestCall("thread", "renew_listen_key"),
                                RestCall("thread", "new_listen_key") >>
                              \o start_rest_calls(outcome)
            /\ last' = Record("_keep_listen_key_alive",
                              IF outcome = "ok" THEN "reconnected" ELSE outcome)
       ELSE /\ last' = Record("_keep_listen_key_alive", renewal_result(renewal))
            /\ transport_calls' = << >>
            /\ rest_calls' = << RestCall("thread", "renew_listen_key") >>
                              \o (IF renewal = "-1125"
                                  THEN << RestCall("thread", "new_listen_key") >> ELSE << >>)
            /\ UNCHANGED << active_positions, monitored_symbols, ws_streams, reopened,
                            scenario, is_ws_connected, ws_reconnect_count,
                            ws_client_running, heartbeat_stale, tick >>
    /\ UNCHANGED << exchange_positions, exchange_stop, exchange_take_profit, message_queue, policy, manager,
                    disconnect_time, backoff, lock_vars >>

NextConn ==
    \/ heartbeat_timeout
    \/ connection_lost
    \/ handle_ws_message
    \/ \E o \in StartOutcomes, f \in BOOLEAN, t \in TransportRuns :
          monitor_ws_connection(o, f, t)
    \/ \E r \in RenewOutcomes, k \in BOOLEAN, o \in StartOutcomes, f \in BOOLEAN,
          t \in TransportRuns : keep_listen_key_alive(r, k, o, f, t)
    \/ process_message_queue

SpecConn == Init /\ [][NextConn]_vars

\* the threads keep running: the loop of _monitor_ws_connection, the consumer
\* of the queue, and the loop of _keep_listen_key_alive while it is alive,
\* which keeps being answered -1125 for an expired key and gets a new key
SpecConnFair ==
    /\ SpecConn
    /\ WF_vars(\E o \in StartOutcomes, f \in BOOLEAN, t \in TransportRuns :
                  monitor_ws_connection(o, f, t))
    /\ WF_vars(\E o \in StartOutcomes, f \in BOOLEAN, t \in TransportRuns :
                  keep_listen_key_alive("-1125", TRUE, o, f, t))
    /\ WF_vars(process_message_queue)

(***************************************************************************)
(* SpecTicks and SpecRace: handle_price_update statement by statement.     *)
(* The handler takes no lock, so a call running in one callback context    *)
(* can be between two of its statements while another context or a thread  *)
(* of the manager runs.  The manager was constructed on an account that    *)
(* holds one long position; every exchange call succeeds.                  *)
(*   SpecTicks: two callback contexts deliver ticks, nothing else runs.    *)
(*   SpecRace:  the listen-key thread restarts the stream as well          *)
(*              (_keep_listen_key_alive -> _reconnect_websocket ->         *)
(*              _start_ws_monitor, which replaces the registry).           *)
(***************************************************************************)
RaceAmount == 1
RaceEntry == 100
RaceTicks == {[valid |-> TRUE, value |-> 111], [valid |-> TRUE, value |-> 121]}

InitRace ==
    /\ exchange_positions = [s \in Symbols |-> [amount |-> RaceAmount, entry |-> RaceEntry]]
    /\ exchange_stop = [s \in Symbols |-> None]
    /\ exchange_take_profit = [s \in Symbols |-> FALSE]
    /\ active_positions =
          [s \in Symbols |-> seed_position([amount |-> RaceAmount, entry |-> RaceEntry])]
    /\ monitored_symbols = Symbols
    /\ ws_streams = Symbols
    /\ message_queue = << >>
    /\ reopened = {}
    /\ scenario = [s \in Symbols |-> Some(0)]
    /\ last = Record("__init__", "none")
    /\ policy = PolicyIdle
    /\ manager = "binance"
    /\ transport_calls = << >>
    /\ InitConnected

\* handle_price_update up to the comparison of the stops (lines 298-328):
\* the context reads the position dict and decides
tick_read(c, symbol, payload) ==
    /\ manager = "binance"
    /\ tick[c].pc = "idle"
    /\ LET current_price == safe_decimal_convert(payload)
       IN  IF current_price = None \/ symbol \notin DOMAIN active_positions
           THEN /\ last' = Record("handle_price_update", "ignored")
                /\ UNCHANGED tick
           ELSE LET position == active_positions[symbol]
                    pcp == price_change_percent(current_price[1], position.entry_price)
                    new_stop_loss == candidate_stop(pcp, position.entry_price)
                IN  IF new_stop_loss # None
                       /\ stop_improves(new_stop_loss[1], position.current_stop_loss)
                    THEN /\ tick' = [tick EXCEPT ![c] =
                                        [pc |-> "update_stop_loss_order", symbol |-> symbol,
                                         current_stop_loss |-> position.current_stop_loss,
                                         new_stop_loss |-> new_stop_loss[1],
                                         replaced |-> FALSE]]
                         /\ last' = Record("handle_price_update", "decided")
                    ELSE /\ last' = Record("handle_price_update", "not_better")
                         /\ UNCHANGED tick
    /\ transport_calls' = << >>
    /\ rest_calls' = << >>
    /\ UNCHANGED << exchange_positions, exchange_stop, exchange_take_profit, active_positions, monitored_symbols,
                    ws_streams, message_queue, reopened, scenario, policy, manager, conn_vars >>

\* line 329: self.update_stop_loss_order(symbol, new_stop_loss)
tick_order(c, outcome) ==
    /\ tick[c].pc = "update_stop_loss_order"
    /\ exchange_stop' =
          IF tick[c].symbol \in DOMAIN active_positions
          THEN update_stop_loss_order(exchange_stop, tick[c].symbol, tick[c].new_stop_loss, outcome)
          ELSE exchange_stop
    /\ exchange_take_profit' =
          IF tick[c].symbol \in DOMAIN active_positions
          THEN cancel_open_orders(exchange_take_profit, tick[c].symbol, outcome)
          ELSE exchange_take_profit
    /\ rest_calls' = replacement_rest_calls(
                        active_positions, tick[c].symbol, tick[c].new_stop_loss, outcome)
    /\ tick' = [tick EXCEPT ![c].pc = "write"]
    /\ last' = Record("handle_price_update", "ordered")
    /\ transport_calls' = << >>
    /\ UNCHANGED << exchange_positions, active_positions, monitored_symbols, ws_streams,
                    message_queue, reopened, scenario, policy, manager, conn_vars >>

\* lines 330-339: position['current_stop_loss'] = new_stop_loss on the dict
\* read at line 315, then the notification
tick_write(c) ==
    /\ tick[c].pc = "write"
    /\ Len(message_queue) < MaxQueue
    /\ active_positions' =
          IF tick[c].replaced THEN active_positions
          ELSE [active_positions EXCEPT
                   ![tick[c].symbol].current_stop_loss = tick[c].new_stop_loss]
    /\ message_queue' = Append(message_queue,
                               queued(update_message(tick[c].symbol, tick[c].new_stop_loss,
                                                     tick[c].current_stop_loss)))
    /\ tick' = [tick EXCEPT ![c] = IdleTick]
    /\ last' = Record("handle_price_update", "written")
    /\ transport_calls' = << >>
    /\ rest_calls' = << >>
    /\ UNCHANGED << exchange_positions, exchange_stop, exchange_take_profit, monitored_symbols, ws_streams,
                    reopened, scenario, policy, manager, conn_vars >>

NextTicks ==
    \/ \E c \in Contexts, s \in Symbols, p \in RaceTicks : tick_read(c, s, p)
    \/ \E c \in Contexts : tick_order(c, "ok")
    \/ \E c \in Contexts : tick_write(c)
    \/ process_message_queue

SpecTicks == InitRace /\ [][NextTicks]_vars

NextRace ==
    \/ \E c \in Contexts, s \in Symbols, p \in RaceTicks : tick_read(c, s, p)
    \/ \E c \in Contexts : tick_order(c, "ok")
    \/ \E c \in Contexts : tick_write(c)
    \/ \E o \in StartOutcomes, f \in BOOLEAN, t \in TransportRuns : start_ws_monitor(o, f, t)
    \/ process_message_queue

SpecRace == InitRace /\ [][NextRace]_vars

(***************************************************************************)
(* Claims.                                                                 *)
(***************************************************************************)
IsTick == last'.op = "handle_price_update"

\* C1: over any sequence of ticks handled by handle_price_update, with no
\* refresh in between, the current_stop_loss of a tracked long position never
\* decreases from one tick to the next.
C1_RatchetOverTicks ==
    [][IsTick =>
        \A s \in DOMAIN active_positions :
            active_positions[s].amount > 0 =>
                /\ s \in DOMAIN active_positions'
                /\ active_positions'[s].current_stop_loss
                      >= active_positions[s].current_stop_loss]_vars

\* C1 witness: a long position has handled a rise and then a pullback (the
\* ticks 109, 111, 108 on entry 100) and holds the raised stop.
C1_Witness ==
    \E s \in DOMAIN active_positions :
        /\ active_positions[s].amount > 0
        /\ scenario[s] = Some(3)
        /\ active_positions[s].current_stop_loss
              > active_positions[s].entry_price * 95

\* C2 (as claimed): while a long position stays open on the exchange, no step
\* (tick or refresh) lowers the current_stop_loss the registry holds for it.
C2_LifetimeMonotone ==
    [][\A s \in DOMAIN active_positions :
            (/\ active_positions[s].amount > 0
             /\ s \notin reopened
             /\ exchange_positions[s].amount # 0
             /\ exchange_positions' = exchange_positions
             /\ s \in DOMAIN active_positions')
            => active_positions'[s].current_stop_loss
                  >= active_positions[s].current_stop_loss]_vars

\* every tracked position is long
AllLong == \A s \in DOMAIN active_positions : active_positions[s].amount > 0

\* C3 (as claimed, on long positions): a tick whose replacement had its cancel
\* accepted and its new stop order rejected leaves the current_stop_loss of
\* every position as it was before the tick.
C3_RejectedKeepsStop ==
    [][(AllLong /\ last'.op = "handle_price_update" /\ last'.result = "order_rejected")
        => active_positions' = active_positions]_vars

\* C4 (as claimed, on long positions): a tick whose replacement failed after
\* the cancel enqueues exactly one order-rejected alert for the symbol and no
\* stop-loss-updated notification.
C4_RejectedAlertsOnce ==
    [][(AllLong /\ last'.op = "handle_price_update" /\ last'.result = "order_rejected")
        => \E s \in Symbols :
              message_queue' = Append(message_queue,
                                      [kind |-> "order_rejected", symbol |-> s])]_vars

\* C5: a long position with entry 100, seeded at 95, that handles the ticks
\* 109, 111, 108, 121 in this order with every order accepted holds the stop
\* 95 after 109, 105 after 111, 105 after 108 and 110 after 121.
C5_Scenario ==
    \A s \in Symbols :
        scenario[s] # None =>
            /\ s \in DOMAIN active_positions
            /\ active_positions[s].amount > 0
            /\ active_positions[s].entry_price = 100
            /\ active_positions[s].current_stop_loss
                  = 100 * Scenario.stops[scenario[s][1] + 1]

\* C5 witness: all four ticks of the scenario have been handled.
C5_Witness ==
    \E s \in Symbols :
        /\ scenario[s] = Some(4)
        /\ active_positions[s].current_stop_loss = 11000

\* C6: for a price change of p percent the guard and calculate_new_stop_loss
\* give no candidate when p < 10 and otherwise entry * (100 + 5k) / 100 with
\* k the tier of p (10k <= p < 10(k+1)); 9.999 gives none, 10.0 and 19.999
\* give 105% of the entry, 20.0 gives 110%.
C6_TierRule ==
    policy.pc = "evaluated" =>
        LET n == policy.pcp[1]
            d == policy.pcp[2]
            e == policy.entry_price
            c == policy.candidate
        IN  /\ (n < 10 * d => c = None)
            /\ (n >= 10 * d =>
                  \E k \in 1 .. (MaxPctNum \div d) :
                      /\ 10 * k * d <= n
                      /\ n < 10 * (k + 1) * d
                      /\ c = Some(e * (100 + 5 * k)))
            /\ (d = 1000 /\ n = 9999 => c = None)
            /\ (d = 1000 /\ n = 10000 => c = Some(e * 105))
            /\ (d = 1000 /\ n = 19999 => c = Some(e * 105))
            /\ (d = 1000 /\ n = 20000 => c = Some(e * 110))

\* C6 witness: the policy has been evaluated at exactly 20.0 percent.
C6_Witness ==
    /\ policy.pc = "evaluated"
    /\ policy.pcp = << 20000, 1000 >>
    /\ policy.candidate = Some(policy.entry_price * 110)

\* the candidate of a tick equals the stop the position holds
TieAt(s, p) ==
    /\ p.valid
    /\ s \in DOMAIN active_positions
    /\ candidate_stop(price_change_percent(p.value, active_positions[s].entry_price),
                      active_positions[s].entry_price)
          = Some(active_positions[s].current_stop_loss)

\* C7: a tick whose candidate equals the current stop issues no exchange
\* call, leaves the registry unchanged and enqueues nothing.
C7_TieIsNoOp ==
    [][\A s \in Symbols, p \in TickPayloads, o \in ExchangeOutcomes :
          (TieAt(s, p) /\ handle_price_update(s, p, o))
          => UNCHANGED << active_positions, exchange_stop, exchange_take_profit, message_queue >>]_vars

\* C7 witness: a tick that tied with the current stop has been handled.
C7_Witness ==
    /\ last = Record("handle_price_update", "tie")
    /\ \E s \in DOMAIN active_positions :
          active_positions[s].current_stop_loss > active_positions[s].entry_price * 95

\* C8 (as claimed): over any tick the current_stop_loss of a short position
\* (negative amount) never increases.
C8_ShortNonIncreasing ==
    [][IsTick =>
        \A s \in DOMAIN active_positions \cap DOMAIN active_positions' :
            active_positions[s].amount < 0 =>
                active_positions'[s].current_stop_loss
                    <= active_positions[s].current_stop_loss]_vars

\* C9 (as claimed): a refresh on an account update whose fetch of the
\* positions fails leaves the registry and the subscriptions as they were.
C9_FailedFetchSkipsRefresh ==
    [][last' = Record("handle_account_update", "fetch_failed")
        => UNCHANGED << active_positions, monitored_symbols, ws_streams >>]_vars

\* C10: after a successful refresh the registry holds exactly the symbols the
\* exchange reports with a non-zero size, each with the reported amount and
\* entry price and the stop 0.95 x that entry price, whatever the registry
\* held for the symbol before.
C10_WholesaleRefresh ==
    (/\ last.op \in {"handle_account_update", "_start_ws_monitor"}
     /\ last.result \in {"refreshed", "reseeded"})
    => /\ DOMAIN active_positions = {s \in Symbols : exchange_positions[s].amount # 0}
       /\ \A s \in DOMAIN active_positions :
             /\ active_positions[s].amount = exchange_positions[s].amount
             /\ active_positions[s].entry_price = exchange_positions[s].entry
             /\ active_positions[s].current_stop_loss = exchange_positions[s].entry * 95

\* C10 witness: a refresh has seeded again a symbol that was closed and
\* reopened while the registry held a raised stop for it.
C10_Witness ==
    /\ last.result = "reseeded"
    /\ \E s \in DOMAIN active_positions :
          active_positions[s].current_stop_loss = active_positions[s].entry_price * 95

(***************************************************************************)
(* The subscription reconciler (SpecSubs).                                 *)
(***************************************************************************)
RegistrySymbols == DOMAIN active_positions

\* C11: when an account-update event has changed the registry's symbol set,
\* the monitored set eventually equals the registry's symbol set again
\* (under SpecSubsFair).
C11_EventuallyMonitored ==
    (last.op = "handle_account_update" /\ monitored_symbols # RegistrySymbols)
        ~> (monitored_symbols = RegistrySymbols)

NoCallRaised(calls) == \A i \in DOMAIN calls : ~calls[i].raised
Unsubscribed(calls) == UNION {calls[i].symbols : i \in {j \in DOMAIN calls : calls[j].op = "unsubscribe"}}
Subscribed(calls) == UNION {calls[i].symbols : i \in {j \in DOMAIN calls : calls[j].op = "subscribe"}}
\* no symbol is named by two of the calls
EachSymbolOnce(calls) ==
    \A i, j \in DOMAIN calls : i # j => calls[i].symbols \cap calls[j].symbols = {}
UnsubscribesFirst(calls) ==
    \A i, j \in DOMAIN calls :
        (calls[i].op = "subscribe" /\ calls[j].op = "unsubscribe") => j < i

\* a step in which the reconciler of the Binance manager or of
\* FuturesTradeManager ran
ReconcileStep ==
    \/ \E f \in BOOLEAN, t \in TransportRuns : start_ws_monitor("ok", f, t)
    \/ /\ \E f \in BOOLEAN, t \in TransportRuns : start_monitoring(f, t)
       /\ last'.result # "unchanged"

\* C12: a reconciliation in which no transport call raises unsubscribes
\* exactly monitored - current, subscribes exactly current - monitored, each
\* symbol once, every unsubscribe before any subscribe, and leaves
\* monitored_symbols equal to the registry's symbol set.
C12_ReconcileContract ==
    [][(ReconcileStep /\ NoCallRaised(transport_calls'))
         => /\ Unsubscribed(transport_calls') = monitored_symbols \ RegistrySymbols'
            /\ Subscribed(transport_calls') = RegistrySymbols' \ monitored_symbols
            /\ EachSymbolOnce(transport_calls')
            /\ UnsubscribesFirst(transport_calls')
            /\ monitored_symbols' = RegistrySymbols']_vars

\* a reconciliation that unsubscribed one symbol and subscribed another
C12_Witness ==
    /\ last.op \in {"_start_ws_monitor", "start_monitoring"}
    /\ NoCallRaised(transport_calls)
    /\ Unsubscribed(transport_calls) # {}
    /\ Subscribed(transport_calls) # {}
    /\ monitored_symbols = RegistrySymbols

\* the step before ran the reconciler
ReconciledLast ==
    \/ last.op = "_start_ws_monitor" /\ last.result \notin StartOutcomes
    \/ last.op = "start_monitoring" /\ last.result # "unchanged"
    \/ last.op = "update_price_subscriptions"

\* a step that calls the reconciler again on the same position set; the
\* polling loop does not even call it when the fetched positions are equal
ReconcileAgainStep ==
    /\ \/ \E f \in BOOLEAN, t \in TransportRuns : start_ws_monitor("ok", f, t)
       \/ \E f \in BOOLEAN, t \in TransportRuns : start_monitoring(f, t)
       \/ \E t \in TransportRuns : BybitUpdatePriceSubscriptions(t)
    /\ RegistrySymbols' = RegistrySymbols

C14_NoDuplicateCalls ==
    \A i \in DOMAIN transport_calls :
        /\ transport_calls[i].op = "subscribe"
              => transport_calls[i].symbols \cap transport_calls[i].before = {}
        /\ transport_calls[i].op = "unsubscribe"
              => transport_calls[i].symbols \cap RegistrySymbols = {}

(***************************************************************************)
(* The connection supervisor (SpecConn).                                   *)
(***************************************************************************)
\* the wait before reconnect attempt n was d seconds
Waited(n, d) == backoff # None /\ backoff[1].attempt = n => backoff[1].delay = d

C19_ResetOnConnect ==
    [][(~is_ws_connected /\ is_ws_connected') => ws_reconnect_count' = 0]_vars

\* a connection attempt starts: _start_ws_monitor is entered
ConnectionAttemptStep ==
    \/ /\ \E o \in StartOutcomes, f \in BOOLEAN, t \in TransportRuns :
             monitor_ws_connection(o, f, t)
       /\ last'.result \notin {"gave_up", "connected"}
    \/ /\ \E r \in RenewOutcomes, k \in BOOLEAN, o \in StartOutcomes, f \in BOOLEAN,
             t \in TransportRuns : keep_listen_key_alive(r, k, o, f, t)
       /\ last'.result \notin {"renewed", "not_renewed", "no_new_key", "thread_died"}

\* C20: once MAX_RECONNECT_ATTEMPTS reconnect attempts in a row have failed,
\* no thread starts a connection attempt.
C20_GiveUpIsTerminal ==
    [][ws_reconnect_count >= MAX_RECONNECT_ATTEMPTS => ~ConnectionAttemptStep]_vars

(***************************************************************************)
(* Concurrency of the handlers (SpecTicks, SpecRace, Spec).                *)
(***************************************************************************)
\* a statement of handle_price_update ran
TickStep == \E c \in Contexts : tick'[c] # tick[c]

\* C15: no statement of a tick handler lowers the stop of a position, in the
\* registry or as the stop order on the exchange, below what an earlier
\* tick set.
C15_NoStaleOverwrite ==
    [][TickStep =>
         \A s \in DOMAIN active_positions :
            /\ active_positions'[s].current_stop_loss >= active_positions[s].current_stop_loss
            /\ exchange_stop[s] # None
                  => (exchange_stop'[s] # None /\ exchange_stop'[s][1] >= exchange_stop[s][1])]_vars

\* C16: the write of a tick handler lands in the registry: after line 330
\* the registry holds the new stop for the symbol.
C16_WriteReachesRegistry ==
    [][\A c \in Contexts :
          (tick[c].pc = "write" /\ tick'[c].pc = "idle"
             /\ tick[c].symbol \in DOMAIN active_positions')
          => active_positions'[tick[c].symbol].current_stop_loss = tick[c].new_stop_loss]_vars

\* C17: no network call is made in the callback context.
C17_CallbackNeverBlocks ==
    \A i \in DOMAIN rest_calls : rest_calls[i].context # "callback"

(***************************************************************************)
(* Notifications and waits of the connection supervisor (SpecConn).        *)
(***************************************************************************)
\* a round of _monitor_ws_connection in which _handle_ws_disconnection
\* refuses to reconnect
GiveUpStep ==
    /\ \E o \in StartOutcomes, f \in BOOLEAN, t \in TransportRuns :
          monitor_ws_connection(o, f, t)
    /\ last'.result = "gave_up"

\* the step put a notification on the queue
Enqueued == Len(message_queue') > Len(message_queue)

\* C21: the round in which the supervisor gives up puts a notification on
\* the queue.
C21_GiveUpAlert == [][GiveUpStep => Enqueued]_vars

\* the supervisor closes a disconnect episode it has announced
EpisodeClosed == disconnect_time # None /\ disconnect_time' = None

\* the step put a reconnect notification on the queue
ReconnectNotified ==
    /\ Enqueued
    /\ message_queue'[Len(message_queue')].kind = "reconnect"

\* C22: every disconnect episode that was announced by a disconnect
\* notification ends with a reconnect notification, however the connection
\* came back.
C22_OneNoticePerTransition == [][EpisodeClosed => ReconnectNotified]_vars

\* a round of _monitor_ws_connection that starts a connection attempt
MonitorAttemptStep ==
    /\ \E o \in StartOutcomes, f \in BOOLEAN, t \in TransportRuns :
          monitor_ws_connection(o, f, t)
    /\ last'.result \notin {"gave_up", "connected"}

\* C23: while the manager is nominally connected the supervisor starts a
\* reconnect attempt only after an earlier round has already seen the stale
\* heartbeat: the first round that sees it does not tear the connection down.
C23_DegradedBeforeTeardown ==
    [][(MonitorAttemptStep /\ is_ws_connected) => disconnect_time # None]_vars

\* C24: a connection attempt that follows a failed one waits the backoff
\* delay first and is counted, whichever thread starts it.
C24_BackoffBeforeEveryAttempt ==
    [][(ConnectionAttemptStep /\ ~is_ws_connected)
         => backoff' = Some([attempt |-> ws_reconnect_count + 1,
                             delay |-> backoff_delay(ws_reconnect_count)])]_vars

\* the renewal thread has just started a connection attempt
RenewalReconnected ==
    /\ last.op = "_keep_listen_key_alive"
    /\ last.result \in StartOutcomes \cup {"reconnected"}

\* C25: after renew_listen_key has answered -1125, the renewal thread
\* eventually starts a full reconnect.
C25_ExpiredKeyForcesReconnect ==
    (last.op = "_keep_listen_key_alive" /\ last.result = "no_new_key") ~> RenewalReconnected

\* C26: the thread of _keep_listen_key_alive never stops.
C26_RenewalLoopNeverStops == listen_key_thread_alive

(***************************************************************************)
(* The notification queue (Spec).                                          *)
(***************************************************************************)
IsPrefix(a, b) == Len(a) <= Len(b) /\ SubSeq(b, 1, Len(a)) = a

\* the step forwarded a message to the sink
ForwardStep == rest_calls' # << >> /\ rest_calls'[1].context = "consumer"

\* C27: the consumer forwards the oldest message of the queue and removes
\* exactly that one; every other step leaves the queued messages in place
\* and in order, adding new ones at the end.
C27_FifoSingleConsumer ==
    [][IF ForwardStep
       THEN /\ rest_calls' = << SendCall(Head(message_queue)) >>
            /\ message_queue' = Tail(message_queue)
       ELSE IsPrefix(message_queue, message_queue')]_vars

\* the consumer forwarded one message while a different one waited behind it
C27_Witness ==
    /\ rest_calls # << >>
    /\ rest_calls[1].context = "consumer"
    /\ message_queue # << >>
    /\ message_queue[1] # rest_calls[1].message

\* queue.Queue() is constructed without maxsize: the default 0 means the
\* queue has no capacity
maxsize == 0

\* C28: the queue has a capacity and never holds more messages than that.
C28_BoundedQueue == maxsize > 0 /\ Len(message_queue) <= maxsize

(***************************************************************************)
(* Isolation of failures and footprint of the order replacement.           *)
(***************************************************************************)
\* a step in which the reconciler of any of the three managers ran
AnyReconcileStep ==
    \/ ReconcileStep
    \/ \E t \in TransportRuns : BybitUpdatePriceSubscriptions(t)

\* C29: a reconciliation issues the call of every symbol it has to
\* unsubscribe or subscribe, also when the call of another symbol raised.
C29_SymbolFailureIsolated ==
    [][AnyReconcileStep
         => Unsubscribed(transport_calls') \cup Subscribed(transport_calls')
              = (monitored_symbols \ RegistrySymbols') \cup (RegistrySymbols' \ monitored_symbols)]_vars

\* C30: a step of handle_price_update, which replaces the stop order, leaves
\* the take-profit order of every symbol as it was.
C30_TakeProfitUntouched ==
    [][last'.op = "handle_price_update" => exchange_take_profit' = exchange_take_profit]_vars

(***************************************************************************)
(* round_price (SpecRound).                                                *)
(***************************************************************************)
InBand(price) == price >= PriceFilter.minPrice /\ price <= PriceFilter.maxPrice

\* C31: round_price returns no value for a price outside [minPrice,
\* maxPrice], and for a price inside it returns a multiple of tickSize that
\* lies in [minPrice, maxPrice].
C31_RoundPriceChecksBand ==
    policy.pc = "rounded"
      => IF InBand(policy.price)
         THEN /\ policy.result # None
              /\ InBand(policy.result[1])
              /\ policy.result[1] % PriceFilter.tickSize = 0
         ELSE policy.result = None

Reconnected ==
    /\ last.op = "_start_ws_monitor"
    /\ last.result \notin StartOutcomes \ {"ok"}
    /\ \A i \in DOMAIN transport_calls : ~transport_calls[i].raised

\* C33: after a successful reconnect every symbol of the registry has a
\* mark-price subscription on the new client, and monitored_symbols lists
\* only symbols subscribed on that client.
C33_ResubscribedOnNewClient ==
    Reconnected => /\ DOMAIN active_positions \subseteq ws_streams
                   /\ monitored_symbols \subseteq ws_streams


(***************************************************************************)
(* handle_ws_message: which handler a message of the transport reaches.    *)
(* A message is the decoded JSON object: `result` is "absent" when the key *)
(* is missing, "null" or "value"; `data` is FALSE when the key is missing; *)
(* `e`, `s` and `p` are the keys of message['data'].                       *)
(***************************************************************************)
MaxMsgPrice == 12

\* {"stream": "<symbol>@markPrice@1s", "data": {"e": "markPriceUpdate", "s": .., "p": ..}}
MarkPriceMessages ==
    [result : {"absent"}, stream : {"markPrice"}, data : {TRUE}, e : {"markPriceUpdate"},
     s : SubSymbols, p : 1 .. MaxMsgPrice]

\* {"stream": "<listenKey>", "data": {"e": "ACCOUNT_UPDATE", ..}} and the like
UserDataMessages ==
    [result : {"absent"}, stream : {"listen_key"}, data : {TRUE},
     e : {"ACCOUNT_UPDATE", "ORDER_TRADE_UPDATE", "listenKeyExpired"}, s : {""}, p : {0}]

\* {"result": null, "id": 1} answers subscribe and unsubscribe,
\* {"result": [..], "id": 2} answers a listing of the subscriptions
ReplyMessages ==
    [result : {"null", "value"}, stream : {"absent"}, data : {FALSE}, e : {"absent"},
     s : {""}, p : {0}]

WsMessages == MarkPriceMessages \cup UserDataMessages \cup ReplyMessages

NoHandler == [handler |-> "none", argument |-> "none"]

\* handle_ws_message of src/traders/binance_futures_trader.py, after the
\* heartbeat bookkeeping
traders_handle_ws_message(message) ==
    IF message.result \in {"absent", "null"} THEN NoHandler
    ELSE IF ~message.data THEN NoHandler
    ELSE IF message.e # "absent"
         THEN IF message.e = "ACCOUNT_UPDATE"
              THEN [handler |-> "handle_account_update", argument |-> "data"]
              ELSE IF message.e = "ORDER_TRADE_UPDATE"
                   THEN [handler |-> "handle_order_update", argument |-> "data"]
                   ELSE NoHandler
         ELSE IF message.stream = "markPrice"
              THEN [handler |-> "handle_price_update", argument |-> "message"]
              ELSE NoHandler

\* handle_ws_message of src/binance_futures_trader.py; message['data'] of a
\* message without the key raises KeyError, which the handler logs
root_handle_ws_message(message) ==
    IF ~message.data THEN NoHandler
    ELSE IF message.e = "ACCOUNT_UPDATE"
         THEN [handler |-> "handle_account_update", argument |-> "data"]
         ELSE IF message.stream = "markPrice"
              THEN [handler |-> "handle_price_update", argument |-> "data"]
              ELSE NoHandler

DispatchCopies == {"traders/binance_futures_trader", "binance_futures_trader"}

handle_ws_message_of(copy, message) ==
    IF copy = "traders/binance_futures_trader" THEN traders_handle_ws_message(message)
    ELSE root_handle_ws_message(message)

InitDispatch ==
    /\ InitManager
    /\ policy \in [message : WsMessages, copy : DispatchCopies, result : {NoHandler},
                   pc : {"delivered"}]

\* the transport calls handle_ws_message(_, message)
dispatch_message ==
    /\ policy.pc = "delivered"
    /\ policy' = [policy EXCEPT !.result = handle_ws_message_of(policy.copy, policy.message),
                                !.pc = "handled"]
    /\ UNCHANGED manager_vars

\* the transport delivers the next message
deliver_message ==
    /\ policy.pc = "handled"
    /\ \E m \in WsMessages :
          policy' = [policy EXCEPT !.message = m, !.result = NoHandler, !.pc = "delivered"]
    /\ UNCHANGED manager_vars

NextDispatch ==
    \/ dispatch_message
    \/ deliver_message

SpecDispatch == InitDispatch /\ [][NextDispatch]_vars

\* handle_price_update reads data['s'] and data['p']: the policy is
\* evaluated when it is handed message['data'], not the enclosing message
PolicyEvaluated ==
    policy.result.handler = "handle_price_update" /\ policy.result.argument = "data"

\* C34: every mark-price message delivered to handle_ws_message has the
\* stop-loss policy evaluated with its payload, and every ACCOUNT_UPDATE
\* message reaches the registry refresh: no data message is dropped as a
\* heartbeat or a subscription confirmation.
C34_DataMessagesDispatched ==
    policy.pc = "handled" =>
        /\ policy.message \in MarkPriceMessages => PolicyEvaluated
        /\ policy.message.e = "ACCOUNT_UPDATE" =>
              policy.result.handler = "handle_account_update"


(***************************************************************************)
(* BybitUSDTFuturesTraderManager: the tick handler and the replacement of  *)
(* the stop order.                                                         *)
(***************************************************************************)
\* what update_stop_loss_order of the Bybit manager did: cancel_all_orders,
\* then the arguments of place_order are evaluated in order,
\* position['position_amt'] before round_price, then place_order is called;
\* every exception is logged and swallowed
bybit_replacement_result(position, symbol, stop_price, outcome) ==
    IF outcome = "cancel_raises" THEN "cancel_raises"
    ELSE IF "position_amt" \notin DOMAIN position THEN "key_error"
    ELSE IF bybit_round_price(stop_price, symbol) = None THEN "round_raises"
    ELSE IF outcome = "order_rejected" THEN "order_rejected"
    ELSE "ok"

\* the stop orders on the exchange after update_stop_loss_order(symbol, stop_price)
bybit_update_stop_loss_order(orders, position, symbol, stop_price, outcome) ==
    LET result == bybit_replacement_result(position, symbol, stop_price, outcome)
    IN  IF result = "cancel_raises" THEN orders
        ELSE IF result = "ok"
             THEN [orders EXCEPT ![symbol] = bybit_round_price(stop_price, symbol)]
             ELSE [orders EXCEPT ![symbol] = None]

\* the requests update_stop_loss_order sent to the exchange
bybit_replacement_rest_calls(position, symbol, stop_price, outcome) ==
    IF bybit_replacement_result(position, symbol, stop_price, outcome) \in {"order_rejected", "ok"}
    THEN << RestCall("callback", "cancel_all_orders"), RestCall("callback", "place_order") >>
    ELSE << RestCall("callback", "cancel_all_orders") >>

\* handle_price_update(message): the symbol of message['topic'],
\* message['data']['markPrice'] = payload
bybit_handle_price_update(symbol, payload, outcome) ==
    /\ manager = "bybit"
    /\ Len(message_queue) < MaxQueue
    /\ LET current_price == safe_decimal_convert(payload)
       IN  IF current_price = None \/ symbol \notin DOMAIN active_positions
           THEN /\ last' = Record("handle_price_update", "ignored")
                /\ rest_calls' = << >>
                /\ UNCHANGED << exchange_stop, exchange_take_profit, active_positions,
                                message_queue >>
           ELSE LET position == active_positions[symbol]
                    entry_price == position.entry_price
                    current_stop_loss == position.current_stop_loss
                    pcp == price_change_percent(current_price[1], entry_price)
                    new_stop_loss == candidate_stop(pcp, entry_price)
                IN  IF new_stop_loss # None /\ stop_improves(new_stop_loss[1], current_stop_loss)
                    THEN /\ exchange_stop' = bybit_update_stop_loss_order(
                                exchange_stop, position, symbol, new_stop_loss[1], outcome)
                         /\ exchange_take_profit' = cancel_open_orders(
                                exchange_take_profit, symbol, outcome)
                         /\ active_positions' =
                                [active_positions EXCEPT
                                    ![symbol].current_stop_loss = new_stop_loss[1]]
                         /\ message_queue' = Append(message_queue,
                                queued(update_message(symbol, new_stop_loss[1],
                                                      current_stop_loss)))
                         /\ last' = Record("handle_price_update",
                                bybit_replacement_result(position, symbol, new_stop_loss[1],
                                                         outcome))
                         /\ rest_calls' = bybit_replacement_rest_calls(
                                position, symbol, new_stop_loss[1], outcome)
                    ELSE /\ last' = Record("handle_price_update",
                                        IF new_stop_loss = None THEN "below_guard"
                                        ELSE IF new_stop_loss[1] = current_stop_loss THEN "tie"
                                        ELSE "not_better")
                         /\ rest_calls' = << >>
                         /\ UNCHANGED << exchange_stop, exchange_take_profit, active_positions,
                                         message_queue >>
    /\ transport_calls' = << >>
    /\ UNCHANGED << exchange_positions, monitored_symbols, ws_streams, reopened, scenario,
                    policy, manager, conn_vars >>
    /\ UNCHANGED tick

\* the Bybit manager constructed on an account with no position
InitBybit ==
    /\ exchange_positions = [s \in Symbols |-> NoPosition]
    /\ exchange_stop = [s \in Symbols |-> None]
    /\ exchange_take_profit = [s \in Symbols |-> FALSE]
    /\ active_positions = EmptyRegistry
    /\ monitored_symbols = {}
    /\ ws_streams = {}
    /\ message_queue = << >>
    /\ reopened = {}
    /\ scenario = [s \in Symbols |-> None]
    /\ last = Record("__init__", "none")
    /\ policy = PolicyIdle
    /\ manager = "bybit"
    /\ transport_calls = << >>
    /\ InitConnected

NextBybit ==
    \/ \E s \in Symbols, a \in Amounts, e \in EntryPrices : PositionOpened(s, a, e)
    \/ \E s \in Symbols : PositionClosed(s)
    \/ \E f \in BOOLEAN : handler_execution_update(f)
    \/ \E t \in TransportRuns : BybitUpdatePriceSubscriptions(t)
    \/ \E s \in Symbols, p \in TickPayloads, o \in ExchangeOutcomes :
          bybit_handle_price_update(s, p, o)
    \/ process_message_queue

SpecBybit == InitBybit /\ [][NextBybit]_vars

\* the tick handler has just escalated a stop: it called update_stop_loss_order
\* and advanced the in-memory stop
BybitEscalated ==
    /\ manager = "bybit"
    /\ last.op = "handle_price_update"
    /\ last.result \notin {"ignored", "below_guard", "tie", "not_better"}

\* the exchange refused one of the requests it received
ExchangeRefused == last.result \in {"cancel_raises", "order_rejected"}

PlaceOrderSubmitted ==
    \E i \in DOMAIN rest_calls : rest_calls[i].call = "place_order"

\* C35: when the Bybit tick handler escalates a stop and the exchange
\* accepts every request it receives, a replacement stop order has been
\* submitted when update_stop_loss_order returns.
C35_BybitReplacementSubmitted ==
    (BybitEscalated /\ ~ExchangeRefused) => PlaceOrderSubmitted


(***************************************************************************)
(* FuturesTradeManager (dynamic_stop_loss.py): the tick handler.           *)
(***************************************************************************)
\* the methods the class defines; it has no base class
FuturesTradeManagerMethods ==
    {"__init__", "send_telegram_message", "format_position_info", "get_active_positions",
     "update_websocket_subscriptions", "start_monitoring", "handle_price_update",
     "calculate_new_stop_loss"}

\* the candidate stop of a mark-price tick for a tracked position, None
\* when the handler does not get as far as the comparison
ftm_candidate(symbol, payload) ==
    IF ~payload.valid \/ symbol \notin DOMAIN active_positions THEN None
    ELSE candidate_stop(price_change_percent(payload.value,
                                             active_positions[symbol].entry_price),
                        active_positions[symbol].entry_price)

\* handle_price_update(_, message) for a markPriceUpdate of `symbol` with
\* data['p'] = payload; every exception ends the handler in its except clause
ftm_handle_price_update(symbol, payload) ==
    /\ manager = "futures_trade_manager"
    /\ LET new_stop_loss == ftm_candidate(symbol, payload)
       IN  IF ~payload.valid \/ symbol \notin DOMAIN active_positions
           THEN /\ last' = Record("handle_price_update", "ignored")
                /\ rest_calls' = << >>
                /\ UNCHANGED << exchange_stop, exchange_take_profit, active_positions >>
           ELSE IF new_stop_loss # None
                   /\ stop_improves(new_stop_loss[1], active_positions[symbol].current_stop_loss)
                THEN IF "update_stop_loss_order" \notin FuturesTradeManagerMethods
                     THEN /\ last' = Record("handle_price_update", "attribute_error")
                          /\ rest_calls' = << >>
                          /\ UNCHANGED << exchange_stop, exchange_take_profit,
                                          active_positions >>
                     ELSE /\ exchange_stop' = update_stop_loss_order(
                                 exchange_stop, symbol, new_stop_loss[1], "ok")
                          /\ exchange_take_profit' = cancel_open_orders(
                                 exchange_take_profit, symbol, "ok")
                          /\ active_positions' =
                                 [active_positions EXCEPT
                                     ![symbol].current_stop_loss = new_stop_loss[1]]
                          /\ last' = Record("handle_price_update", "ok")
                          /\ rest_calls' = replacement_rest_calls(
                                 active_positions, symbol, new_stop_loss[1], "ok")
                                 \o << RestCall("callback", "send_message") >>
                ELSE /\ last' = Record("handle_price_update",
                                    IF new_stop_loss = None THEN "below_guard"
                                    ELSE IF new_stop_loss[1]
                                            = active_positions[symbol].current_stop_loss
                                         THEN "tie"
                                         ELSE "not_better")
                     /\ rest_calls' = << >>
                     /\ UNCHANGED << exchange_stop, exchange_take_profit, active_positions >>
    /\ transport_calls' = << >>
    /\ UNCHANGED << exchange_positions, monitored_symbols, ws_streams, message_queue, reopened,
                    scenario, policy, manager, conn_vars >>
    /\ UNCHANGED tick

\* FuturesTradeManager constructed on an account with no position
InitFuturesTradeManager ==
    /\ exchange_positions = [s \in SubSymbols |-> NoPosition]
    /\ exchange_stop = [s \in SubSymbols |-> None]
    /\ exchange_take_profit = [s \in SubSymbols |-> FALSE]
    /\ active_positions = EmptyRegistry
    /\ monitored_symbols = {}
    /\ ws_streams = {}
    /\ message_queue = << >>
    /\ reopened = {}
    /\ scenario = [s \in Symbols |-> None]
    /\ last = Record("__init__", "none")
    /\ policy = PolicyIdle
    /\ manager = "futures_trade_manager"
    /\ transport_calls = << >>
    /\ InitConnected

NextFuturesTradeManager ==
    \/ \E s \in SubSymbols, a \in Amounts, e \in EntryPrices : PositionOpened(s, a, e)
    \/ \E s \in SubSymbols : PositionClosed(s)
    \/ \E f \in BOOLEAN, t \in TransportRuns : start_monitoring(f, t)
    \/ \E s \in SubSymbols, p \in TickPayloads : ftm_handle_price_update(s, p)

SpecFuturesTradeManager == InitFuturesTradeManager /\ [][NextFuturesTradeManager]_vars

\* the calls of the step just taken that send a Telegram message
SendMessageCalls == {i \in DOMAIN rest_calls : rest_calls[i].call = "send_message"}

\* C36: when a tick for a tracked position yields a candidate stop strictly
\* above the current stop, the handler of FuturesTradeManager issues a
\* stop-order replacement, sets the in-memory stop to the candidate and
\* sends exactly one stop-adjustment notification.
C36_EscalationReplacesWritesNotifies ==
    [][\A s \in SubSymbols, p \in TickPayloads :
          (/\ ftm_handle_price_update(s, p)
           /\ ftm_candidate(s, p) # None
           /\ ftm_candidate(s, p)[1] > active_positions[s].current_stop_loss)
          => /\ \E i \in DOMAIN rest_calls' : rest_calls'[i].call = "new_order"
             /\ active_positions'[s].current_stop_loss = ftm_candidate(s, p)[1]
             /\ Cardinality(SendMessageCalls') = 1]_vars


(***************************************************************************)
(* SpecLock: _start_ws_monitor statement by statement, called by the       *)
(* threads of the manager.  The constructor calls it before it starts a    *)
(* thread, so the initial state is the one it leaves: one client running,  *)
(* the lock free.                                                          *)
(***************************************************************************)
MaxOrphans == 2

\* a _start_ws_monitor that takes no lock
lock_available_unlocked(t) == TRUE

\* with self.ws_lock: the thread goes on when no thread holds the lock
lock_available(t) == ws_lock = "free"

\* the thread calls _reconnect_websocket and enters `with self.ws_lock`:
\* the monitor from _handle_ws_disconnection, after the wait and the
\* increment of the counter, the listen-key thread from its except clause
enter_start_ws_monitor(t) ==
    /\ manager = "binance"
    /\ start_pc[t] = "idle"
    /\ lock_available(t)
    /\ IF t = "monitor"
       THEN /\ heartbeat_stale \/ ~is_ws_connected
            /\ ws_reconnect_count < MAX_RECONNECT_ATTEMPTS
            /\ ws_reconnect_count' = ws_reconnect_count + 1
            /\ backoff' = Some([attempt |-> ws_reconnect_count + 1,
                                 delay |-> backoff_delay(ws_reconnect_count)])
       ELSE /\ listen_key_thread_alive
            /\ UNCHANGED << ws_reconnect_count, backoff >>
    /\ ws_lock' = t
    /\ start_pc' = [start_pc EXCEPT ![t] = "stop"]
    /\ last' = Record("_start_ws_monitor", "entered")
    /\ transport_calls' = << >>
    /\ rest_calls' = << >>
    /\ UNCHANGED << exchange_positions, exchange_stop, exchange_take_profit, active_positions,
                    monitored_symbols, ws_streams, message_queue, reopened, scenario, policy,
                    manager, is_ws_connected, ws_client_running, heartbeat_stale,
                    disconnect_time, listen_key_thread_alive, orphan_clients, tick >>

\* if self.ws_client: self.ws_client.stop(); when stop() raises, the except
\* clause sets is_ws_connected = False and the lock is released
stop_ws_client(t, raises) ==
    /\ start_pc[t] = "stop"
    /\ IF raises
       THEN /\ is_ws_connected' = FALSE
            /\ ws_lock' = "free"
            /\ start_pc' = [start_pc EXCEPT ![t] = "idle"]
            /\ last' = Record("_start_ws_monitor", "stop_raises")
            /\ UNCHANGED << ws_client_running, ws_streams >>
       ELSE /\ ws_client_running' = FALSE
            /\ ws_streams' = {}
            /\ start_pc' = [start_pc EXCEPT ![t] = "create"]
            /\ last' = Record("_start_ws_monitor", "stopped")
            /\ UNCHANGED << is_ws_connected, ws_lock >>
    /\ transport_calls' = << >>
    /\ rest_calls' = << >>
    /\ UNCHANGED << exchange_positions, exchange_stop, exchange_take_profit, active_positions,
                    monitored_symbols, message_queue, reopened, scenario, policy, manager,
                    ws_reconnect_count, heartbeat_stale, disconnect_time, backoff,
                    listen_key_thread_alive, orphan_clients, tick >>

\* the rest of the with block: _get_listen_key, the new
\* UMFuturesWebsocketClient assigned to self.ws_client, user_data, the
\* flags, the registry and the subscriptions; then the lock is released.
\* A client that is still running when self.ws_client is assigned another
\* one keeps running with nothing referring to it
create_ws_client(t, outcome, fetch_ok, transport) ==
    /\ start_pc[t] = "create"
    /\ orphan_clients < MaxOrphans
    /\ StartWsMonitorBody(outcome, fetch_ok, transport, ws_reconnect_count)
    /\ orphan_clients' = IF outcome = "ok" /\ ws_client_running
                         THEN orphan_clients + 1 ELSE orphan_clients
    /\ ws_lock' = "free"
    /\ start_pc' = [start_pc EXCEPT ![t] = "idle"]
    /\ last' = Record("_start_ws_monitor", start_result(outcome, fetch_ok))
    /\ rest_calls' = start_rest_calls(outcome)
    /\ UNCHANGED << exchange_positions, exchange_stop, exchange_take_profit, message_queue,
                    policy, manager, disconnect_time, backoff, listen_key_thread_alive >>

NextLock ==
    \/ heartbeat_timeout
    \/ connection_lost
    \/ handle_ws_message
    \/ \E t \in StartThreads : enter_start_ws_monitor(t)
    \/ \E t \in StartThreads, raises \in BOOLEAN : stop_ws_client(t, raises)
    \/ \E t \in StartThreads, o \in StartOutcomes \ {"stop_raises"}, f \in BOOLEAN,
          tr \in TransportRuns : create_ws_client(t, o, f, tr)

SpecLock == Init /\ [][NextLock]_vars

\* the websocket clients that hold an open connection
LiveClients == orphan_clients + (IF ws_client_running THEN 1 ELSE 0)

\* C37: at most one websocket client is live at any time, and no two
\* threads are inside _start_ws_monitor at once: the previous client is
\* stopped before the next one is created.
C37_AtMostOneLiveClient ==
    /\ LiveClients <= 1
    /\ \A t, u \in StartThreads : (start_pc[t] # "idle" /\ start_pc[u] # "idle") => t = u
    /\ \A t \in StartThreads : start_pc[t] = "create" => LiveClients = 0

\* the listen-key thread is between stopping the old client and creating
\* the new one while the monitor has a reconnect to make
C37_Witness ==
    /\ start_pc["listen_key"] = "create"
    /\ ws_lock = "listen_key"
    /\ heartbeat_stale
    /\ ws_reconnect_count < MAX_RECONNECT_ATTEMPTS
    /\ start_pc["monitor"] = "idle"


\* the symbols whose in-memory stop the step changed
StopChanged ==
    {s \in DOMAIN active_positions \cap DOMAIN active_positions' :
        active_positions'[s].current_stop_loss # active_positions[s].current_stop_loss}

\* C38: an invocation of the Binance handle_price_update puts a 'stop-loss
\* updated' notification on the queue exactly when it changed a position's
\* in-memory stop: one notification for the change, carrying the stop that
\* was written; none otherwise.
C38_NotifiedIffChanged ==
    [][(manager = "binance" /\ last'.op = "handle_price_update") =>
          IF StopChanged # {}
          THEN \E s \in StopChanged :
                  /\ StopChanged = {s}
                  /\ message_queue' = Append(message_queue, queued(last'.put))
                  /\ last'.put.kind = "stop_loss_updated"
                  /\ last'.put.symbol = s
                  /\ last'.put.stop = active_positions'[s].current_stop_loss
          ELSE message_queue' = message_queue]_vars

\* a tick has just raised a stop and the queue holds its notification
C38_Witness ==
    /\ manager = "binance"
    /\ last.op = "handle_price_update"
    /\ last.result = "ok"
    /\ message_queue # << >>
    /\ message_queue[Len(message_queue)].kind = "stop_loss_updated"
    /\ last.put.stop > Scenario.entry * DefaultStopPercent


(***************************************************************************)
(* TradingExecutor.execute_long: on which exchange a signal is traded.     *)
(* A call is drawn as: whether the token has a 'symbol', what              *)
(* has_trade_pair and has_position of each manager answer for the symbol,  *)
(* and how set_leverage and the opening order end on the exchange.         *)
(***************************************************************************)
\* the exceptions set_leverage and limit_open_long_with_tp_sl let through
\* ("none" when the call returns); both are subclasses of Exception
OrderFailures == {"none", "ClientError", "KeyError"}

ExecuteCalls ==
    [has_symbol : BOOLEAN, binance_lists : BOOLEAN, binance_position : BOOLEAN,
     bybit_lists : BOOLEAN, bybit_position : BOOLEAN,
     set_leverage : OrderFailures, open_order : OrderFailures]

NoOrder == [new_order |-> {}, opening_orders |-> 0, raised |-> "none"]

\* new_order of a manager: set_leverage, whose exception is not caught,
\* then limit_open_long_with_tp_sl, which sends the opening order and whose
\* exception is raised again
new_order(exchange, call) ==
    [new_order |-> {exchange},
     opening_orders |-> IF call.set_leverage = "none" THEN 1 ELSE 0,
     raised |-> IF call.set_leverage # "none" THEN call.set_leverage ELSE call.open_order]

\* lines 111-126: the Bybit branch
execute_long_bybit(call) ==
    IF call.bybit_lists
    THEN IF call.bybit_position THEN NoOrder ELSE new_order("bybit", call)
    ELSE NoOrder

\* an executor that goes on to Bybit when Binance holds the position
binance_holds_position_tries_bybit(call) == execute_long_bybit(call)

\* lines 94-96: Binance lists the pair and holds a position: return
binance_holds_position(call) == NoOrder

\* except Exception as e: logged, nothing raised to the caller
except_Exception(result) == [result EXCEPT !.raised = "none"]

\* execute_long(token)
execute_long(call) ==
    except_Exception(
        IF ~call.has_symbol THEN NoOrder
        ELSE IF call.binance_lists
             THEN IF call.binance_position
                  THEN binance_holds_position(call)
                  ELSE new_order("binance", call)
             ELSE execute_long_bybit(call))

InitExecute ==
    /\ InitManager
    /\ policy \in [call : ExecuteCalls, result : {NoOrder}, pc : {"called"}]

\* the call runs to its end
execute_long_returns ==
    /\ policy.pc = "called"
    /\ policy' = [policy EXCEPT !.result = execute_long(policy.call), !.pc = "returned"]
    /\ UNCHANGED manager_vars

\* the next signal
execute_long_called ==
    /\ policy.pc = "returned"
    /\ \E c \in ExecuteCalls : policy' = [call |-> c, result |-> NoOrder, pc |-> "called"]
    /\ UNCHANGED manager_vars

NextExecute ==
    \/ execute_long_returns
    \/ execute_long_called

SpecExecute == InitExecute /\ [][NextExecute]_vars

\* C39: execute_long sends at most one opening order; it orders on Binance
\* exactly when Binance lists the pair and holds no position for it, on
\* Bybit exactly when Binance does not list the pair and Bybit lists it and
\* holds no position for it; and it raises nothing.
C39_OneOrderBinanceFirst ==
    policy.pc = "returned" =>
        /\ policy.result.opening_orders <= 1
        /\ Cardinality(policy.result.new_order) <= 1
        /\ policy.result.raised = "none"
        /\ policy.call.has_symbol =>
              /\ "binance" \in policy.result.new_order
                    <=> (policy.call.binance_lists /\ ~policy.call.binance_position)
              /\ "bybit" \in policy.result.new_order
                    <=> (~policy.call.binance_lists /\ policy.call.bybit_lists
                         /\ ~policy.call.bybit_position)

\* Binance lists the pair and holds a position, Bybit lists it and holds
\* none: the call has returned without an order
C39_Witness ==
    /\ policy.pc = "returned"
    /\ policy.call.has_symbol
    /\ policy.call.binance_lists /\ policy.call.binance_position
    /\ policy.call.bybit_lists /\ ~policy.call.bybit_position
    /\ policy.result.new_order = {}


(***************************************************************************)
(* TokenFilter.filter_tokens_by_conditions and SignalTracker, for one      *)
(* symbol.  Times are minutes on the clock datetime.now() reads; a call    *)
(* of filter_tokens_by_conditions reads one time.                          *)
(***************************************************************************)
\* SignalTracker(expiry_minutes=30)
expiry_minutes == 30
ClockStep == 5
MaxClock == 70
MaxData == 2

TrackerCopies == {"utils/signal_tracker", "signal_tracker"}

\* what has_recent_signal takes for expired: datetime.now() > expiry_time in
\* src/utils, not (current_time - signal_time < timedelta(...)) in src
signal_expired(copy, now, signal_time) ==
    IF copy = "utils/signal_tracker"
    THEN now > signal_time + expiry_minutes
    ELSE ~(now - signal_time < expiry_minutes)

\* has_recent_signal(symbol): the answer and self.signals[symbol] after it
\* (None when the symbol has no entry)
has_recent_signal(copy, signals, now) ==
    IF signals = None THEN [recent |-> FALSE, signals |-> None]
    ELSE IF signal_expired(copy, now, signals[1])
         THEN [recent |-> FALSE, signals |-> None]
         ELSE [recent |-> TRUE, signals |-> signals]

\* add_signal(symbol): self.signals[symbol] = datetime.now()
add_signal(signals, now) == Some(now)

\* a filter that does not record the sighting it suppresses
suppressed_sighting_not_recorded(signals, now) == signals

\* lines 86-89: the token is skipped and add_signal is called for it
suppressed_sighting(signals, now) == add_signal(signals, now)

\* a token of `data`: whether apply_filters passes it and the sign of
\* token['performance']['min5']
Tokens == [passes : BOOLEAN, min5_positive : BOOLEAN]

DataLists == UNION {[1 .. n -> Tokens] : n \in 1 .. MaxData}

\* the loop of filter_tokens_by_conditions from token i on; `acc` holds
\* the entry of the tracker and the lengths of gainers and losers
RECURSIVE filter_tokens(_, _, _, _, _)
filter_tokens(copy, data, i, now, acc) ==
    IF i > Len(data) THEN acc
    ELSE IF ~data[i].passes THEN filter_tokens(copy, data, i + 1, now, acc)
    ELSE LET checked == has_recent_signal(copy, acc.signals, now)
         IN  IF checked.recent
             THEN filter_tokens(copy, data, i + 1, now,
                     [acc EXCEPT !.signals = suppressed_sighting(checked.signals, now)])
             ELSE filter_tokens(copy, data, i + 1, now,
                     [signals |-> add_signal(checked.signals, now),
                      gainers |-> acc.gainers + (IF data[i].min5_positive THEN 1 ELSE 0),
                      losers |-> acc.losers + (IF data[i].min5_positive THEN 0 ELSE 1)])

\* a TokenFilter just constructed: the tracker is empty.  `sighting` is the
\* time a token of the symbol last passed the filters, `previous` the one
\* before the call that ran last, `before` the entry before that call
InitFilter ==
    /\ InitManager
    /\ policy \in [copy : TrackerCopies, now : {0}, signals : {None}, sighting : {None},
                   previous : {None}, before : {None}, gainers : {0}, losers : {0},
                   recent : {FALSE}, passed : {FALSE}, op : {"__init__"}]

\* time passes
clock_advance ==
    /\ policy.now + ClockStep <= MaxClock
    /\ policy' = [policy EXCEPT !.now = policy.now + ClockStep, !.op = "clock"]
    /\ UNCHANGED manager_vars

\* filter_tokens_by_conditions(data)
filter_tokens_by_conditions(data) ==
    /\ LET passed == \E i \in DOMAIN data : data[i].passes
           result == filter_tokens(policy.copy, data, 1, policy.now,
                        [signals |-> policy.signals, gainers |-> 0, losers |-> 0])
       IN  policy' = [policy EXCEPT
                         !.signals = result.signals,
                         !.gainers = result.gainers,
                         !.losers = result.losers,
                         !.before = policy.signals,
                         !.previous = policy.sighting,
                         !.sighting = IF passed THEN Some(policy.now) ELSE policy.sighting,
                         !.passed = passed,
                         !.op = "filter_tokens_by_conditions"]
    /\ UNCHANGED manager_vars

\* has_recent_signal(symbol) called on its own
has_recent_signal_called ==
    /\ LET checked == has_recent_signal(policy.copy, policy.signals, policy.now)
       IN  policy' = [policy EXCEPT !.signals = checked.signals,
                                    !.recent = checked.recent,
                                    !.before = policy.signals,
                                    !.op = "has_recent_signal"]
    /\ UNCHANGED manager_vars

NextFilter ==
    \/ clock_advance
    \/ \E data \in DataLists : filter_tokens_by_conditions(data)
    \/ has_recent_signal_called

SpecFilter == InitFilter /\ [][NextFilter]_vars

\* C40: a call of filter_tokens_by_conditions returns a symbol at most
\* once, and only when its previous sighting is at least expiry_minutes
\* old; every sighting, returned or suppressed, leaves the current time as
\* the symbol's signal time; has_recent_signal deletes the entry exactly
\* when it answers False for a symbol that has one, and then the entry was
\* at least expiry_minutes old.
C40_SuppressedWithinExpiry ==
    /\ policy.op = "filter_tokens_by_conditions" =>
          /\ policy.gainers + policy.losers <= 1
          /\ policy.gainers + policy.losers = 1 =>
                (policy.previous = None
                 \/ policy.now - policy.previous[1] >= expiry_minutes)
          /\ policy.passed => policy.signals = Some(policy.now)
    /\ (policy.op = "has_recent_signal" /\ policy.before # None) =>
          /\ policy.signals = None <=> ~policy.recent
          /\ ~policy.recent => policy.now - policy.before[1] >= expiry_minutes
          /\ policy.recent => (policy.signals = policy.before
                               /\ policy.now - policy.before[1] <= expiry_minutes)

\* the symbol is returned again, its previous sighting having expired
C40_Witness ==
    /\ policy.op = "filter_tokens_by_conditions"
    /\ policy.gainers + policy.losers = 1
    /\ policy.previous # None
    /\ policy.before # None

====
